---- MODULE Spec2Model ----
(***************************************************************************)
(* Slot-filling conversation engine of the Jira agent.                     *)
(*                                                                         *)
(* The model follows the extraction-seeded ConversationManager, the        *)
(* JiraAgent conversation loop, the step-by-step IssueCreationFlow, the    *)
(* AIParameterExtractor and the InformationExtractor.  JavaScript strings  *)
(* are TLA+ strings; toLowerCase, trim, includes and the regular           *)
(* expressions are computed character by character.  Confidences are kept  *)
(* in tenths (0.6 is 6).                                                   *)
(***************************************************************************)
EXTENDS Integers, Sequences, FiniteSets, TLC

(***************************************************************************)
(* String primitives                                                       *)
(***************************************************************************)
UpperChars == "ABCDEFGHIJKLMNOPQRSTUVWXYZ"
LowerChars == "abcdefghijklmnopqrstuvwxyz"
DigitChars == "0123456789"

CharAt(s, i) == SubSeq(s, i, i)

InChars(c, cs) == \E i \in 1..Len(cs) : CharAt(cs, i) = c

IndexIn(c, cs) == CHOOSE i \in 1..Len(cs) : CharAt(cs, i) = c

IsLetter(c) == InChars(c, UpperChars) \/ InChars(c, LowerChars)

IsUpperOrDigit(c) == InChars(c, UpperChars) \/ InChars(c, DigitChars)

IsAlnum(c) == IsLetter(c) \/ InChars(c, DigitChars)

\* \w of a JavaScript regular expression
IsWordChar(c) == IsAlnum(c) \/ c = "_"

\* \s of a JavaScript regular expression (the utterances hold no other blank)
IsSpace(c) == c = " "

LowerChar(c) ==
    IF InChars(c, UpperChars) THEN CharAt(LowerChars, IndexIn(c, UpperChars)) ELSE c

UpperChar(c) ==
    IF InChars(c, LowerChars) THEN CharAt(UpperChars, IndexIn(c, LowerChars)) ELSE c

RECURSIVE toLowerCase(_)
toLowerCase(s) ==
    IF Len(s) = 0 THEN ""
    ELSE LowerChar(CharAt(s, 1)) \o toLowerCase(SubSeq(s, 2, Len(s)))

RECURSIVE toUpperCase(_)
toUpperCase(s) ==
    IF Len(s) = 0 THEN ""
    ELSE UpperChar(CharAt(s, 1)) \o toUpperCase(SubSeq(s, 2, Len(s)))

RECURSIVE trimStart(_)
trimStart(s) ==
    IF Len(s) > 0 /\ IsSpace(CharAt(s, 1)) THEN trimStart(SubSeq(s, 2, Len(s))) ELSE s

RECURSIVE trimEnd(_)
trimEnd(s) ==
    IF Len(s) > 0 /\ IsSpace(CharAt(s, Len(s))) THEN trimEnd(SubSeq(s, 1, Len(s) - 1)) ELSE s

trim(s) == trimEnd(trimStart(s))

\* s.startsWith(k) at position i
MatchesAt(s, i, k) == i >= 1 /\ i + Len(k) - 1 <= Len(s) /\ SubSeq(s, i, i + Len(k) - 1) = k

includes(s, k) == \E i \in 1..(Len(s) - Len(k) + 1) : MatchesAt(s, i, k)

\* keywords.some(keyword => s.includes(keyword))
includesAny(s, ks) == \E k \in ks : includes(s, k)

\* first index at or after i whose character is not a blank
RECURSIVE SkipSpaces(_, _)
SkipSpaces(s, i) == IF i <= Len(s) /\ IsSpace(CharAt(s, i)) THEN SkipSpaces(s, i + 1) ELSE i

\* first index at or after i whose character is not a word character
RECURSIVE SkipWord(_, _)
SkipWord(s, i) == IF i <= Len(s) /\ IsWordChar(CharAt(s, i)) THEN SkipWord(s, i + 1) ELSE i

\* first index at or after i whose character is not a letter or a digit
RECURSIVE SkipAlnum(_, _)
SkipAlnum(s, i) == IF i <= Len(s) /\ IsAlnum(CharAt(s, i)) THEN SkipAlnum(s, i + 1) ELSE i

\* \b of a JavaScript regular expression, before the character at index i
WordBoundary(s, i) ==
    LET before == i > 1 /\ i - 1 <= Len(s) /\ IsWordChar(CharAt(s, i - 1))
        after == i >= 1 /\ i <= Len(s) /\ IsWordChar(CharAt(s, i))
    IN before # after

(***************************************************************************)
(* JavaScript values: string | null, and a truthy value that is no string  *)
(***************************************************************************)
Null == [kind |-> "null", s |-> ""]

Str(s) == [kind |-> "string", s |-> s]

NonString == [kind |-> "object", s |-> ""]

Undefined == [kind |-> "undefined"]

\* an optional array property: undefined, or the array
UndefinedArray == [kind |-> "undefined", items |-> <<>>]

Array(items) == [kind |-> "array", items |-> items]

\* JavaScript truthiness of a value
Truthy(v) == v.kind = "object" \/ (v.kind = "string" /\ v.s # "")

(***************************************************************************)
(* InformationExtractor: the deterministic extractor                       *)
(***************************************************************************)
\* least element of a non-empty set of indices
FirstIndex(S) == CHOOSE i \in S : \A j \in S : i <= j

\* for (const [key, value] of Object.entries(mapping)) if (s.includes(key)) return value
RECURSIVE FirstIncluded(_, _, _)
FirstIncluded(s, mapping, i) ==
    IF i > Len(mapping) THEN Null
    ELSE IF includes(s, mapping[i][1]) THEN Str(mapping[i][2])
    ELSE FirstIncluded(s, mapping, i + 1)

projectMapping ==
    << <<"demo", "FV Demo (Issues)">>, <<"fvdemo", "FV Demo (Issues)">>,
       <<"fv demo", "FV Demo (Issues)">>, <<"demo issues", "FV Demo (Issues)">>,
       <<"issues", "FV Demo (Issues)">>, <<"dpi", "FV Demo (Issues)">>,
       <<"demo product", "FV Demo (Product)">>, <<"fv demo product", "FV Demo (Product)">>,
       <<"product demo", "FV Demo (Product)">>, <<"dpd", "FV Demo (Product)">>,
       <<"engineering", "FV Engineering">>, <<"eng", "FV Engineering">>,
       <<"fv engineering", "FV Engineering">>, <<"fv eng", "FV Engineering">>,
       <<"product", "FV Product">>, <<"fv product", "FV Product">>,
       <<"prod", "FV Product">> >>

fullProjectNames == <<"FV Product", "FV Engineering", "FV Demo (Issues)", "FV Demo (Product)">>

legacyMapping ==
    << <<"DEMO", "FV Demo (Issues)">>, <<"DPI", "FV Demo (Issues)">>,
       <<"DPD", "FV Demo (Product)">>, <<"ENG", "FV Engineering">>,
       <<"PROD", "FV Product">> >>

\* end (exclusive) of the run of upper-case letters and digits that starts at i
RECURSIVE SkipUpperOrDigit(_, _)
SkipUpperOrDigit(s, i) ==
    IF i <= Len(s) /\ IsUpperOrDigit(CharAt(s, i)) THEN SkipUpperOrDigit(s, i + 1) ELSE i

\* a whole word of upper-case letters and digits starts at i with a letter
ProjectKeyAt(s, i) ==
    /\ InChars(CharAt(s, i), UpperChars)
    /\ WordBoundary(s, i)
    /\ WordBoundary(s, SkipUpperOrDigit(s, i))

RECURSIVE FirstProjectKey(_, _)
FirstProjectKey(s, i) ==
    IF i > Len(s) THEN Null
    ELSE IF ProjectKeyAt(s, i) THEN Str(SubSeq(s, i, SkipUpperOrDigit(s, i) - 1))
    ELSE FirstProjectKey(s, i + 1)

\* userInput.match(/\b([A-Z]+[A-Z0-9]*)\b/)[1], Null when there is no match
ProjectKeyMatch(s) == FirstProjectKey(s, 1)

\* mapping[key] of a JavaScript object, Null when the key is not in it
RECURSIVE Lookup(_, _, _)
Lookup(mapping, key, i) ==
    IF i > Len(mapping) THEN Null
    ELSE IF mapping[i][1] = key THEN Str(mapping[i][2])
    ELSE Lookup(mapping, key, i + 1)

\* for (const name of names) if (s.includes(name.toLowerCase())) return name
RECURSIVE FirstNameIncluded(_, _, _)
FirstNameIncluded(s, names, i) ==
    IF i > Len(names) THEN Null
    ELSE IF includes(s, toLowerCase(names[i])) THEN Str(names[i])
    ELSE FirstNameIncluded(s, names, i + 1)

\* legacyMapping[match] || match
LegacyProject(match, legacy) == IF legacy # Null THEN legacy ELSE Str(match)

\* the fallback of extractProjectFromResponse: project keys
ProjectFromKey(key) ==
    IF key = Null THEN Null
    ELSE LegacyProject(toUpperCase(key.s), Lookup(legacyMapping, toUpperCase(key.s), 1))

\* the partial matches of extractProjectFromResponse, then the fallback
ProjectFromPartial(userInput, lowerInput) ==
    IF includes(lowerInput, "fv product") \/ includes(lowerInput, "fanvoice product")
    THEN Str("FV Product")
    ELSE IF includes(lowerInput, "fv engineering") \/ includes(lowerInput, "fanvoice engineering")
    THEN Str("FV Engineering")
    ELSE IF includes(lowerInput, "fv demo") /\ includes(lowerInput, "product")
    THEN Str("FV Demo (Product)")
    ELSE IF includes(lowerInput, "fv demo")
            /\ (includes(lowerInput, "issues") \/ ~includes(lowerInput, "product"))
    THEN Str("FV Demo (Issues)")
    ELSE ProjectFromKey(ProjectKeyMatch(userInput))

\* the first of the three that is found
FirstFound(m1, m2, m3) == IF m1 # Null THEN m1 ELSE IF m2 # Null THEN m2 ELSE m3

ProjectFrom(userInput, lowerInput) ==
    FirstFound(FirstIncluded(lowerInput, projectMapping, 1),
               FirstNameIncluded(lowerInput, fullProjectNames, 1),
               ProjectFromPartial(userInput, lowerInput))

extractProjectFromResponse(userInput) == ProjectFrom(userInput, trim(toLowerCase(userInput)))

typeMapping == << <<"bug", "Bug">>, <<"task", "Task">>, <<"story", "Story">>, <<"epic", "Epic">> >>

extractIssueTypeFromResponse(userInput) ==
    FirstIncluded(toLowerCase(userInput), typeMapping, 1)

priorityMapping ==
    << <<"lowest", "Lowest">>, <<"very low", "Lowest">>, <<"trivial", "Lowest">>,
       <<"low", "Low">>, <<"minor", "Low">>,
       <<"medium", "Medium">>, <<"normal", "Medium">>, <<"standard", "Medium">>,
       <<"high", "High">>, <<"important", "High">>, <<"urgent", "High">>, <<"major", "High">>,
       <<"highest", "Highest">>, <<"critical", "Highest">>, <<"blocker", "Highest">>,
       <<"severe", "Highest">> >>

extractPriorityFromResponse(userInput) ==
    FirstIncluded(toLowerCase(userInput), priorityMapping, 1)

MinTitleLength == 5

extractTitleFromResponse(userInput) ==
    IF Len(trim(userInput)) > MinTitleLength THEN Str(trim(userInput)) ELSE Null

\* extractDescriptionFromResponse that compares the answer without lowering its case
extractDescriptionFromResponseCaseSensitive(userInput) ==
    LET lowerInput == trim(userInput)
    IN IF lowerInput = "skip" \/ lowerInput = "none" \/ lowerInput = "no description"
       THEN "" ELSE trim(userInput)

extractDescriptionFromResponse(userInput) ==
    LET lowerInput == trim(toLowerCase(userInput))
    IN IF lowerInput = "skip" \/ lowerInput = "none" \/ lowerInput = "no description"
       THEN "" ELSE trim(userInput)

\* type.charAt(0).toUpperCase() + type.slice(1)
Capitalize(s) == IF Len(s) = 0 THEN "" ELSE UpperChar(CharAt(s, 1)) \o SubSeq(s, 2, Len(s))

normalizeIssueType(type) ==
    LET normalized == toLowerCase(type)
    IN IF normalized = "bug" THEN "Bug"
       ELSE IF normalized = "task" THEN "Task"
       ELSE IF normalized = "story" THEN "Story"
       ELSE IF normalized = "epic" THEN "Epic"
       ELSE Capitalize(type)

normalizePriority(priority) ==
    LET normalized == toLowerCase(priority)
    IN IF normalized \in {"lowest", "very low", "trivial"} THEN "Lowest"
       ELSE IF normalized \in {"low", "minor"} THEN "Low"
       ELSE IF normalized \in {"medium", "normal", "standard"} THEN "Medium"
       ELSE IF normalized \in {"high", "important", "urgent", "major"} THEN "High"
       ELSE IF normalized \in {"highest", "critical", "blocker", "severe"} THEN "Highest"
       ELSE Capitalize(priority)

creationKeywords == {"create", "new", "make", "add", "report", "log", "submit"}

issueKeywords == {"issue", "ticket", "bug", "task", "story", "epic", "problem"}

detectsIssueCreationIntent(userInput) ==
    LET lowerInput == toLowerCase(userInput)
    IN includesAny(lowerInput, creationKeywords) /\ includesAny(lowerInput, issueKeywords)

detectsSearchIntent(userInput) ==
    LET lowerInput == toLowerCase(userInput)
    IN /\ (includes(lowerInput, "search") \/ includes(lowerInput, "find"))
       /\ (includes(lowerInput, "issue") \/ includes(lowerInput, "ticket"))

(***************************************************************************)
(* JavaScript objects with optional string properties (IssueData)          *)
(***************************************************************************)
EmptyObject == <<>>

\* obj[key] = value
SetProp(obj, key, value) ==
    (key :> value) @@ obj

\* Object.assign(target, source)
ObjectAssign(target, source) ==
    source @@ target

\* !!obj[key]: the property is set and is not the empty string
HasProp(obj, key) == key \in DOMAIN obj /\ obj[key] # ""

(***************************************************************************)
(* InformationExtractor.extractExplicitInformation: the regular            *)
(* expressions, each as the leftmost match JavaScript finds                *)
(***************************************************************************)
\* In the operators below s is the utterance and l is s.toLowerCase(): a
\* case-insensitive pattern is matched against l, its captures are cut from s.

\* (?:filler\s+)(\w+) matches at j
Filled(s, l, j, filler) ==
    /\ MatchesAt(l, j, filler)
    /\ SkipSpaces(s, j + Len(filler)) > j + Len(filler)
    /\ SkipWord(s, SkipSpaces(s, j + Len(filler))) > SkipSpaces(s, j + Len(filler))

\* (?:filler\s+)?(\w+) at j: where the capture starts, 0 when there is no match
CaptureFrom(s, l, j, fillers) ==
    IF \E f \in fillers : Filled(s, l, j, f)
    THEN SkipSpaces(s, j + Len(CHOOSE f \in fillers : Filled(s, l, j, f)))
    ELSE IF SkipWord(s, j) > j THEN j
    ELSE 0

\* keyword\s+(?:filler\s+)?(\w+) at i: where the capture starts, 0 when there is no match
CaptureStart(s, l, i, keyword, fillers) ==
    IF ~MatchesAt(l, i, keyword) \/ SkipSpaces(s, i + Len(keyword)) = i + Len(keyword) THEN 0
    ELSE CaptureFrom(s, l, SkipSpaces(s, i + Len(keyword)), fillers)

\* the capture start of the leftmost match at or after i, 0 when there is none
RECURSIVE FirstCaptureStart(_, _, _, _, _)
FirstCaptureStart(s, l, i, keywords, fillers) ==
    IF i > Len(s) THEN 0
    ELSE IF \E k \in keywords : CaptureStart(s, l, i, k, fillers) > 0
    THEN CaptureStart(s, l, i, CHOOSE k \in keywords : CaptureStart(s, l, i, k, fillers) > 0, fillers)
    ELSE FirstCaptureStart(s, l, i + 1, keywords, fillers)

\* the run of word characters at c
WordAt(s, c) == IF c = 0 THEN Null ELSE Str(SubSeq(s, c, SkipWord(s, c) - 1))

\* the run of letters and digits at c
AlnumAt(s, c) == IF c = 0 THEN Null ELSE Str(SubSeq(s, c, SkipAlnum(s, c) - 1))

\* s.match(/(?:k1|k2)\s+(?:filler\s+)?(\w+)/i)[1], Null when there is no match
KeywordWordMatch(s, keywords, fillers) ==
    WordAt(s, FirstCaptureStart(s, toLowerCase(s), 1, keywords, fillers))

\* keyword\s+([A-Z]+...) at i: where the capture starts, 0 when there is no match
ProjectAfterAt(s, l, i, keyword) ==
    IF /\ MatchesAt(l, i, keyword)
       /\ SkipSpaces(s, i + Len(keyword)) > i + Len(keyword)
       /\ SkipSpaces(s, i + Len(keyword)) <= Len(s)
       /\ IsLetter(CharAt(s, SkipSpaces(s, i + Len(keyword))))
    THEN SkipSpaces(s, i + Len(keyword))
    ELSE 0

RECURSIVE FirstProjectAfter(_, _, _)
FirstProjectAfter(s, l, i) ==
    IF i > Len(s) THEN 0
    ELSE IF ProjectAfterAt(s, l, i, "project") > 0 THEN ProjectAfterAt(s, l, i, "project")
    ELSE IF ProjectAfterAt(s, l, i, "in") > 0 THEN ProjectAfterAt(s, l, i, "in")
    ELSE FirstProjectAfter(s, l, i + 1)

\* s.match(/(?:project|in)\s+([A-Z]+(?:[A-Z0-9]*)?)/i)[1]
ProjectAfterKeyword(s) == AlnumAt(s, FirstProjectAfter(s, toLowerCase(s), 1))

\* ([A-Z]+...)\s+project matches at i
ProjectBeforeAt(s, l, i) ==
    /\ IsLetter(CharAt(s, i))
    /\ SkipSpaces(s, SkipAlnum(s, i)) > SkipAlnum(s, i)
    /\ MatchesAt(l, SkipSpaces(s, SkipAlnum(s, i)), "project")

RECURSIVE FirstProjectBefore(_, _, _)
FirstProjectBefore(s, l, i) ==
    IF i > Len(s) THEN 0
    ELSE IF ProjectBeforeAt(s, l, i) THEN i
    ELSE FirstProjectBefore(s, l, i + 1)

\* s.match(/([A-Z]+(?:[A-Z0-9]*)?)\s+project/i)[1]
ProjectBeforeKeyword(s) == AlnumAt(s, FirstProjectBefore(s, toLowerCase(s), 1))

\* \b(keyword)\s+tail\b matches at i, or \b(keyword)\b when tail = ""
BoundedAt(s, l, i, keyword, tail) ==
    /\ WordBoundary(s, i)
    /\ MatchesAt(l, i, keyword)
    /\ IF tail = "" THEN WordBoundary(s, i + Len(keyword))
       ELSE /\ SkipSpaces(s, i + Len(keyword)) > i + Len(keyword)
            /\ MatchesAt(l, SkipSpaces(s, i + Len(keyword)), tail)
            /\ WordBoundary(s, SkipSpaces(s, i + Len(keyword)) + Len(tail))

RECURSIVE FirstBounded(_, _, _, _, _)
FirstBounded(s, l, i, keywords, tail) ==
    IF i > Len(s) THEN Null
    ELSE IF \E k \in keywords : BoundedAt(s, l, i, k, tail)
    THEN Str(SubSeq(s, i, i + Len(CHOOSE k \in keywords : BoundedAt(s, l, i, k, tail)) - 1))
    ELSE FirstBounded(s, l, i + 1, keywords, tail)

\* s.match(/\b(k1|k2|...)\s+priority\b/i)[1] with tail = "priority",
\* s.match(/\b(k1|k2|...)\b/i)[1] with tail = ""
BoundedKeywordMatch(s, keywords, tail) == FirstBounded(s, toLowerCase(s), 1, keywords, tail)

Quote == "\""

\* s.indexOf(c, i) counted from 1, 0 when c does not occur at or after i
RECURSIVE IndexOfFrom(_, _, _)
IndexOfFrom(s, c, i) ==
    IF i > Len(s) THEN 0
    ELSE IF CharAt(s, i) = c THEN i
    ELSE IndexOfFrom(s, c, i + 1)

RECURSIVE FirstQuoted(_, _)
FirstQuoted(s, i) ==
    IF i > Len(s) THEN Null
    ELSE IF CharAt(s, i) = Quote /\ IndexOfFrom(s, Quote, i + 1) > i + 1
    THEN Str(SubSeq(s, i + 1, IndexOfFrom(s, Quote, i + 1) - 1))
    ELSE FirstQuoted(s, i + 1)

\* s.match(/"([^"]+)"/)[1]
QuotedMatch(s) == FirstQuoted(s, 1)

MaxProjectKeyLength == 10

explicitTypes == {"bug", "task", "story", "epic", "issue", "ticket"}

\* the capture is one of the listed words
Listed(m) == m # Null /\ toLowerCase(m.s) \in explicitTypes

FirstListed(m1, m2, m3) ==
    IF Listed(m1) THEN m1 ELSE IF Listed(m2) THEN m2 ELSE IF Listed(m3) THEN m3 ELSE Null

\* issue and ticket name no type
ListedType(m) ==
    IF m = Null \/ toLowerCase(m.s) \in {"issue", "ticket"} THEN Null
    ELSE Str(normalizeIssueType(toLowerCase(m.s)))

\* the type loop: the first pattern whose capture is a listed word decides
explicitIssueType(userInput) ==
    ListedType(FirstListed(KeywordWordMatch(userInput, {"create"}, {"a"}),
                           KeywordWordMatch(userInput, {"new"}, {}),
                           KeywordWordMatch(userInput, {"report", "log"}, {"a"})))

MatchedPriority(m) == IF m = Null THEN Null ELSE Str(normalizePriority(toLowerCase(m.s)))

\* the priority loop: the first pattern that matches decides
explicitPriority(userInput) ==
    MatchedPriority(FirstFound(
        BoundedKeywordMatch(userInput, {"low", "medium", "high", "critical"}, "priority"),
        KeywordWordMatch(userInput, {"priority"}, {"is", "of"}),
        BoundedKeywordMatch(userInput, {"urgent", "critical", "important"}, "")))

\* match && match[1].length <= 10
Short(m) == m # Null /\ Len(m.s) <= MaxProjectKeyLength

FirstShort(m1, m2) ==
    IF Short(m1) THEN Str(toUpperCase(m1.s))
    ELSE IF Short(m2) THEN Str(toUpperCase(m2.s))
    ELSE Null

\* the project loop: the first pattern with a capture of at most 10 characters
explicitProject(userInput) ==
    FirstShort(ProjectAfterKeyword(userInput), ProjectBeforeKeyword(userInput))

\* extractedData[key] = m.s when the pattern matched
Found(extractedData, key, m) ==
    IF m = Null THEN extractedData ELSE SetProp(extractedData, key, m.s)

extractExplicitInformation(userInput) ==
    Found(Found(Found(Found(EmptyObject,
        "project", explicitProject(userInput)),
        "issueType", explicitIssueType(userInput)),
        "priority", explicitPriority(userInput)),
        "title", QuotedMatch(userInput))

(***************************************************************************)
(* AIParameterExtractor: the probabilistic extractor adapter               *)
(*                                                                         *)
(* A reply of the language model is [outcome, params]: outcome "throw"     *)
(* (the call fails or returns no content), "unparsable" (JSON.parse        *)
(* fails) or "ok"; params gives, per field, [present, value, confidence]   *)
(* as parsed from the JSON, before any normalisation.                      *)
(***************************************************************************)
ParameterNames == {"title", "type", "project", "priority", "description"}

\* confidence of a JSON value that is no number: Math.min(1, x) is NaN
NaN == 999

\* 0.6 and 1.0 in tenths
ConfidenceThreshold == 6

FullConfidence == 10

\* c >= t and c < t in IEEE arithmetic: both false for NaN
ConfGE(c, t) == c # NaN /\ c >= t

ConfLT(c, t) == c # NaN /\ c < t

\* Math.max(0, Math.min(1, c || 0))
ClampConfidence(c) ==
    IF c = NaN THEN NaN ELSE IF c > FullConfidence THEN FullConfidence ELSE IF c < 0 THEN 0 ELSE c

Param(value, confidence, source) ==
    [value |-> value, confidence |-> confidence, source |-> source]

normalizeParameter(param) ==
    IF ~param.present THEN [value |-> Null, confidence |-> 0, source |-> "ai_extracted"]
    ELSE Param(IF Truthy(param.value) THEN param.value ELSE Null,
               ClampConfidence(param.confidence), "ai_extracted")

NoParam == Param(Null, 0, "ai_extracted")

createEmptyExtraction ==
    [title |-> NoParam, description |-> NoParam, type |-> NoParam,
     project |-> NoParam, priority |-> NoParam]

DefaultType == Param(Str("Bug"), FullConfidence, "default")

DefaultProject == Param(Str("FV Demo (Issues)"), FullConfidence, "default")

DefaultPriority == Param(Str("Medium"), FullConfidence, "default")

\* createDefaultExtraction that forgets the defaults
createDefaultExtractionUndefaulted == createEmptyExtraction

createDefaultExtraction ==
    [title |-> NoParam, description |-> NoParam, type |-> DefaultType,
     project |-> DefaultProject, priority |-> DefaultPriority]

parseAIResponse(aiResponse) ==
    IF aiResponse.outcome = "unparsable" THEN createEmptyExtraction
    ELSE [title |-> normalizeParameter(aiResponse.params.title),
          description |-> normalizeParameter(aiResponse.params.description),
          type |-> normalizeParameter(aiResponse.params.type),
          project |-> normalizeParameter(aiResponse.params.project),
          priority |-> normalizeParameter(aiResponse.params.priority)]

\* !p.value || p.confidence < 0.6
BelowThreshold(p, threshold) == ~Truthy(p.value) \/ ConfLT(p.confidence, threshold)

\* p.value && p.confidence >= 0.6
AtThreshold(p, threshold) == Truthy(p.value) /\ ConfGE(p.confidence, threshold)

\* applyDefaults that leaves the priority as extracted
applyDefaultsButPriority(extracted) ==
    [title |-> extracted["title"],
     description |-> extracted["description"],
     type |-> IF BelowThreshold(extracted["type"], ConfidenceThreshold)
              THEN DefaultType ELSE extracted["type"],
     project |-> IF BelowThreshold(extracted["project"], ConfidenceThreshold)
                 THEN DefaultProject ELSE extracted["project"],
     priority |-> extracted["priority"]]

applyDefaults(extracted) ==
    [title |-> extracted.title,
     description |-> extracted.description,
     type |-> IF BelowThreshold(extracted.type, ConfidenceThreshold)
              THEN DefaultType ELSE extracted.type,
     project |-> IF BelowThreshold(extracted.project, ConfidenceThreshold)
                 THEN DefaultProject ELSE extracted.project,
     priority |-> IF BelowThreshold(extracted.priority, ConfidenceThreshold)
                  THEN DefaultPriority ELSE extracted.priority]

extractParameters(aiResponse) ==
    IF aiResponse.outcome = "throw" THEN createDefaultExtraction
    ELSE applyDefaults(parseAIResponse(aiResponse))

\* identifyMissingParameters that checks the description before the title
identifyMissingParametersDescriptionFirst(extracted, confidenceThreshold) ==
    (IF BelowThreshold(extracted["description"], confidenceThreshold)
     THEN <<"description">> ELSE <<>>)
    \o (IF BelowThreshold(extracted["title"], confidenceThreshold) THEN <<"title">> ELSE <<>>)

\* identifyMissingParameters that also queues a field at exactly the threshold
identifyMissingParametersInclusive(extracted, confidenceThreshold) ==
    (IF BelowThreshold(extracted["title"], confidenceThreshold + 1) THEN <<"title">> ELSE <<>>)
    \o (IF BelowThreshold(extracted["description"], confidenceThreshold + 1)
        THEN <<"description">> ELSE <<>>)

identifyMissingParameters(extracted, confidenceThreshold) ==
    (IF BelowThreshold(extracted["title"], confidenceThreshold) THEN <<"title">> ELSE <<>>)
    \o (IF BelowThreshold(extracted["description"], confidenceThreshold)
        THEN <<"description">> ELSE <<>>)

validTypes == {"Bug", "Task", "Story", "Epic"}

validPriorities == {"Lowest", "Low", "Medium", "High", "Highest"}

validatorProjectMapping ==
    << <<"fv demo product", "FV Demo (Product)">>, <<"demo product", "FV Demo (Product)">>,
       <<"fv demo (product)", "FV Demo (Product)">>, <<"dpd", "FV Demo (Product)">>,
       <<"fv demo issues", "FV Demo (Issues)">>, <<"demo issues", "FV Demo (Issues)">>,
       <<"fv demo (issues)", "FV Demo (Issues)">>, <<"demo", "FV Demo (Issues)">>,
       <<"fvdemo", "FV Demo (Issues)">>, <<"dpi", "FV Demo (Issues)">>,
       <<"issues", "FV Demo (Issues)">>,
       <<"fv engineering", "FV Engineering">>, <<"engineering", "FV Engineering">>,
       <<"eng", "FV Engineering">>,
       <<"fv product", "FV Product">>, <<"prod", "FV Product">> >>

validFullNames == <<"FV Demo (Product)", "FV Demo (Issues)", "FV Engineering", "FV Product">>

\* validated.project.value.toLowerCase() is a TypeError when the value is no string
validateThrows(extracted) == extracted["project"].value.kind = "object"

\* validFullNames.find(name => name.toLowerCase() === s || name === s)
RECURSIVE FindFullName(_, _, _)
FindFullName(s, names, i) ==
    IF i > Len(names) THEN Null
    ELSE IF toLowerCase(names[i]) = s \/ names[i] = s THEN Str(names[i])
    ELSE FindFullName(s, names, i + 1)

ValidProject(p, mapped, full) ==
    IF mapped # Null THEN [p EXCEPT !.value = mapped]
    ELSE IF full # Null THEN [p EXCEPT !.value = full]
    ELSE DefaultProject

validateProject(p) ==
    IF ~Truthy(p.value) THEN p
    ELSE ValidProject(p,
                      Lookup(validatorProjectMapping, trim(toLowerCase(p.value.s)), 1),
                      FindFullName(trim(toLowerCase(p.value.s)), validFullNames, 1))

\* the extracted parameter with its confidence lowered to 0.3
Demoted(p) == [p EXCEPT !.confidence = 3]

\* validateExtractedParameters that keeps an unknown value and lowers its confidence
validateExtractedParametersDemoting(extracted) ==
    [title |-> extracted["title"],
     description |-> extracted["description"],
     type |-> IF Truthy(extracted["type"].value)
                 /\ ~(extracted["type"].value.kind = "string"
                      /\ extracted["type"].value.s \in validTypes)
              THEN Demoted(extracted["type"]) ELSE extracted["type"],
     project |-> IF validateProject(extracted["project"]) = DefaultProject
                 THEN Demoted(extracted["project"])
                 ELSE validateProject(extracted["project"]),
     priority |-> IF Truthy(extracted["priority"].value)
                     /\ ~(extracted["priority"].value.kind = "string"
                          /\ extracted["priority"].value.s \in validPriorities)
                  THEN Demoted(extracted["priority"]) ELSE extracted["priority"]]

\* defined when validateThrows(extracted) is false
validateExtractedParameters(extracted) ==
    [title |-> extracted.title,
     description |-> extracted.description,
     type |-> IF Truthy(extracted.type.value)
                 /\ ~(extracted.type.value.kind = "string"
                      /\ extracted.type.value.s \in validTypes)
              THEN DefaultType ELSE extracted.type,
     project |-> validateProject(extracted.project),
     priority |-> IF Truthy(extracted.priority.value)
                     /\ ~(extracted.priority.value.kind = "string"
                          /\ extracted.priority.value.s \in validPriorities)
                  THEN DefaultPriority ELSE extracted.priority]

(***************************************************************************)
(* Inputs                                                                  *)
(***************************************************************************)
EXIT_COMMAND == "exit"

Utterances ==
    { "create a bug", "add issue \"Login broken\"", "App crashes",
      "yes", "no", "skip", "eng", "high",
      "cancel", "stop", "abort",
      "find issue login", "exit", "" }

Guess(value, confidence) == [present |-> TRUE, value |-> value, confidence |-> confidence]

Absent == Guess(Null, 0)

\* a parsed reply of the model
Parsed(title, description, type, project, priority) ==
    [outcome |-> "ok",
     params |-> [title |-> title, description |-> description, type |-> type,
                 project |-> project, priority |-> priority]]

GoodTitle == Guess(Str("Login broken"), 9)

GoodDescription == Guess(Str("Crash on submit"), 6)

ParsedReplies ==
    { Parsed(Absent, Absent, Absent, Absent, Absent),
      Parsed(Absent, Absent, Guess(Str("Task"), 9), Guess(Str("Engineering"), 8), Absent),
      Parsed(GoodTitle, GoodDescription, Absent, Absent, Absent),
      Parsed(GoodTitle, GoodDescription, Guess(Str("Task"), 9), Guess(Str("eng"), 6),
             Guess(Str("High"), 7)),
      Parsed(GoodTitle, Absent, Absent, Absent, Absent),
      Parsed(Guess(Str("Login broken"), 5), GoodDescription, Absent, Absent, Absent),
      Parsed(Guess(Str("Login broken"), NaN), GoodDescription, Absent, Absent, Absent),
      Parsed(Absent, Absent, Absent, Guess(NonString, 9), Absent) }

FailedReplies ==
    { [outcome |-> o, params |-> Parsed(Absent, Absent, Absent, Absent, Absent).params] :
        o \in {"throw", "unparsable"} }

Replies == ParsedReplies \cup FailedReplies

NoReply == [outcome |-> "none"]

(***************************************************************************)
(* The extractors on the inputs of the model.  Each is a pure function of  *)
(* the utterance or of the model's reply, so its value is computed once    *)
(* per input and looked up by the handlers.                                *)
(***************************************************************************)
checkForCancellation(userInput) ==
    LET lowerInput == toLowerCase(userInput)
    IN includes(lowerInput, "cancel") \/ includes(lowerInput, "stop") \/ includes(lowerInput, "abort")

\* lowerInput.includes('yes') || lowerInput.includes('confirm') || lowerInput.includes('create')
isAffirmative(userInput) ==
    LET lowerInput == toLowerCase(userInput)
    IN includes(lowerInput, "yes") \/ includes(lowerInput, "confirm") \/ includes(lowerInput, "create")

\* lowerInput.includes('no') || lowerInput.includes('cancel')
isNegative(userInput) ==
    LET lowerInput == toLowerCase(userInput)
    IN includes(lowerInput, "no") \/ includes(lowerInput, "cancel")

\* the value the deterministic extractor reads from an answer for a field
extractFromResponse(field, userInput) ==
    IF field = "project" THEN extractProjectFromResponse(userInput)
    ELSE IF field = "type" THEN extractIssueTypeFromResponse(userInput)
    ELSE IF field = "title" THEN extractTitleFromResponse(userInput)
    ELSE IF field = "priority" THEN extractPriorityFromResponse(userInput)
    ELSE Str(extractDescriptionFromResponse(userInput))

\* userInput.toLowerCase().trim() === APP_CONFIG.EXIT_COMMAND
IsExit(userInput) == trim(toLowerCase(userInput)) = EXIT_COMMAND

\* userInput.trim() === ''
IsEmpty(userInput) == trim(userInput) = ""

Hear(userInput) ==
    [input |-> userInput,
     exit |-> IsExit(userInput),
     empty |-> IsEmpty(userInput),
     cancellation |-> checkForCancellation(userInput),
     affirmative |-> isAffirmative(userInput),
     negative |-> isNegative(userInput),
     creationIntent |-> detectsIssueCreationIntent(userInput),
     searchIntent |-> detectsSearchIntent(userInput),
     answer |-> [title |-> extractFromResponse("title", userInput),
                 description |-> extractFromResponse("description", userInput),
                 type |-> extractFromResponse("type", userInput),
                 project |-> extractFromResponse("project", userInput),
                 priority |-> extractFromResponse("priority", userInput)],
     explicit |-> extractExplicitInformation(userInput)]

\* the utterances as the extractors hear them
Heard == { Hear(userInput) : userInput \in Utterances }

\* lines 59-63 of startIssueCreationWithAI: extractParameters, then
\* validateExtractedParameters (which may throw), then identifyMissingParameters
Validated(extracted) ==
    IF validateThrows(extracted) THEN extracted ELSE validateExtractedParameters(extracted)

Extraction(modelReply, extracted, validated) ==
    [reply |-> modelReply,
     throws |-> validateThrows(extracted),
     validated |-> validated,
     missing |-> identifyMissingParameters(validated, ConfidenceThreshold)]

Extract(modelReply) ==
    Extraction(modelReply, extractParameters(modelReply), Validated(extractParameters(modelReply)))

\* the replies of the model as the session start extracts from them
Extracted == { Extract(modelReply) : modelReply \in Replies }

\* no extraction is made in a turn that starts no session
NoExtraction ==
    [reply |-> NoReply, throws |-> FALSE, validated |-> createEmptyExtraction, missing |-> <<>>]

(***************************************************************************)
(* ConversationState and IssueCreationFlow (the step-by-step flow)         *)
(***************************************************************************)
DETECTING_INTENT == "detecting_intent"
AI_EXTRACTING == "ai_extracting"
ASKING_PROJECT == "asking_project"
ASKING_TYPE == "asking_type"
ASKING_TITLE == "asking_title"
ASKING_DESCRIPTION == "asking_description"
ASKING_PRIORITY == "asking_priority"
CONFIRMING_DETAILS == "confirming_details"
READY_TO_CREATE == "ready_to_create"

\* the state a JiraAgent is constructed with
InitialConversationState ==
    [isCreatingIssue |-> FALSE,
     issueData |-> EmptyObject,
     currentStep |-> DETECTING_INTENT,
     hasAskedFor |-> {},
     extractedParameters |-> Undefined,
     missingParameters |-> UndefinedArray]

\* what a handler returns: the state it leaves, the action, the message it
\* emits, and the field whose answer it stored ("" when it stored none)
Outcome(st, action, message, stored) ==
    [st |-> st, action |-> action, message |-> message, stored |-> stored]

Message(kind, about) == [kind |-> kind, about |-> about]

NoMessage == Message("none", "")

CancelledMessage == Message("cancelled", "")

\* resetState that keeps the set of asked fields
resetStateKeepingAsked(st) ==
    [st EXCEPT !.isCreatingIssue = FALSE,
               !.issueData = EmptyObject,
               !.currentStep = DETECTING_INTENT]

resetState(st) ==
    [st EXCEPT !.isCreatingIssue = FALSE,
               !.issueData = EmptyObject,
               !.currentStep = DETECTING_INTENT,
               !.hasAskedFor = {}]

startIssueCreation(heard, st) ==
    [st EXCEPT !.isCreatingIssue = TRUE,
               !.currentStep = ASKING_PROJECT,
               !.issueData = ObjectAssign(st.issueData, heard.explicit)]

hasAllRequiredData(issueData) ==
    /\ HasProp(issueData, "project")
    /\ HasProp(issueData, "issueType")
    /\ HasProp(issueData, "title")
    /\ HasProp(issueData, "priority")

determineNextStep(st) ==
    IF ~HasProp(st.issueData, "project") /\ "project" \notin st.hasAskedFor THEN ASKING_PROJECT
    ELSE IF ~HasProp(st.issueData, "issueType") /\ "type" \notin st.hasAskedFor THEN ASKING_TYPE
    ELSE IF ~HasProp(st.issueData, "title") /\ "title" \notin st.hasAskedFor THEN ASKING_TITLE
    ELSE IF ~HasProp(st.issueData, "description") /\ "description" \notin st.hasAskedFor
         THEN ASKING_DESCRIPTION
    ELSE IF ~HasProp(st.issueData, "priority") /\ "priority" \notin st.hasAskedFor
         THEN ASKING_PRIORITY
    ELSE IF hasAllRequiredData(st.issueData) THEN CONFIRMING_DETAILS
    ELSE READY_TO_CREATE

\* the field a step asks for, "" for a step that asks for none
FieldOfStep(step) ==
    IF step = ASKING_PROJECT THEN "project"
    ELSE IF step = ASKING_TYPE THEN "type"
    ELSE IF step = ASKING_TITLE THEN "title"
    ELSE IF step = ASKING_DESCRIPTION THEN "description"
    ELSE IF step = ASKING_PRIORITY THEN "priority"
    ELSE ""

\* the property of IssueData a field is stored in
PropOfField(field) == IF field = "type" THEN "issueType" ELSE field

getQuestionForStep(step) ==
    IF step = CONFIRMING_DETAILS THEN Message("confirm", "")
    ELSE IF FieldOfStep(step) # "" THEN Message("question", FieldOfStep(step))
    ELSE Message("more_information", "")

\* handleProjectResponse .. handlePriorityResponse: [st, success, value]
processResponse(heard, currentStep, st) ==
    IF currentStep = CONFIRMING_DETAILS
    THEN IF heard.affirmative THEN [st |-> st, success |-> TRUE, value |-> "confirmed"]
         ELSE IF heard.negative THEN [st |-> st, success |-> TRUE, value |-> "cancelled"]
         ELSE [st |-> st, success |-> FALSE, value |-> ""]
    ELSE IF FieldOfStep(currentStep) = "" THEN [st |-> st, success |-> FALSE, value |-> ""]
    ELSE LET field == FieldOfStep(currentStep)
             v == heard.answer[field]
         IN IF field = "description" \/ Truthy(v)
            THEN [st |-> [st EXCEPT !.issueData = SetProp(st.issueData, PropOfField(field), v.s)],
                  success |-> TRUE, value |-> ""]
            ELSE [st |-> st, success |-> FALSE, value |-> ""]

(***************************************************************************)
(* ConversationManager (extraction-seeded)                                 *)
(***************************************************************************)
\* getStepForParameter that knows no step but its default
getStepForParameterDefaultOnly(parameter) == ASKING_TITLE

getStepForParameter(parameter) ==
    IF parameter = "project" THEN ASKING_PROJECT
    ELSE IF parameter = "type" THEN ASKING_TYPE
    ELSE IF parameter = "title" THEN ASKING_TITLE
    ELSE IF parameter = "description" THEN ASKING_DESCRIPTION
    ELSE IF parameter = "priority" THEN ASKING_PRIORITY
    ELSE ASKING_TITLE

markStepAsAsked(step, st) ==
    IF FieldOfStep(step) = "" THEN st
    ELSE [st EXCEPT !.hasAskedFor = st.hasAskedFor \cup {FieldOfStep(step)}]

\* convertExtractedToIssueData that stores a value whatever its confidence
StoreExtractedAnyConfidence(issueData, extracted, field) ==
    IF Truthy(extracted[field].value)
    THEN SetProp(issueData, PropOfField(field), extracted[field].value.s)
    ELSE issueData

\* if (extracted.f.value && extracted.f.confidence >= 0.6) issueData.f = value
StoreExtracted(issueData, extracted, field) ==
    IF AtThreshold(extracted[field], ConfidenceThreshold)
    THEN SetProp(issueData, PropOfField(field), extracted[field].value.s)
    ELSE issueData

convertExtractedToIssueData(extracted, st) ==
    [st EXCEPT !.issueData =
        StoreExtracted(StoreExtracted(StoreExtracted(StoreExtracted(StoreExtracted(
            st.issueData, extracted, "title"), extracted, "description"),
            extracted, "type"), extracted, "project"), extracted, "priority")]

\* [st, success]
processParameterResponse(heard, parameter, st) ==
    IF parameter \notin ParameterNames THEN [st |-> st, success |-> FALSE]
    ELSE LET v == heard.answer[parameter]
         IN IF parameter = "description" \/ Truthy(v)
            THEN [st |-> [st EXCEPT !.issueData =
                                SetProp(st.issueData, PropOfField(parameter), v.s)],
                  success |-> TRUE]
            ELSE [st |-> st, success |-> FALSE]

\* the mark printed after each field of the summary ("" for a field not printed)
displayAIExtractedSummary(st) ==
    [field \in {"project", "type", "title", "priority", "description"} |->
        IF ~( /\ HasProp(st.issueData, PropOfField(field))
              /\ st.issueData[PropOfField(field)] # "" )
        THEN ""
        ELSE IF /\ st.extractedParameters # Undefined
                /\ ConfGE(st.extractedParameters[field].confidence, ConfidenceThreshold)
        THEN "AI extracted"
        ELSE "Follow-up question"]

\* handleMissingParameterCollection that drops the parameter before it checks the answer
handleMissingParameterCollectionAdvancing(heard, st) ==
    LET currentMissing == st.missingParameters.items[1]
        r == processParameterResponse(heard, currentMissing, st)
        rest == Tail(st.missingParameters.items)
    IN IF ~r.success
       THEN Outcome([st EXCEPT !.missingParameters = Array(rest)],
                    "continue", Message("retry", currentMissing), "")
       ELSE IF Len(rest) = 0
       THEN Outcome([r.st EXCEPT !.missingParameters = Array(rest),
                                 !.currentStep = CONFIRMING_DETAILS],
                    "continue", Message("confirm", ""), currentMissing)
       ELSE Outcome([r.st EXCEPT !.missingParameters = Array(rest),
                                 !.currentStep = getStepForParameter(rest[1])],
                    "continue", Message("question", rest[1]), currentMissing)

handleMissingParameterCollection(heard, st) ==
    LET currentMissing == st.missingParameters.items[1]
        r == processParameterResponse(heard, currentMissing, st)
        rest == Tail(st.missingParameters.items)
    IN IF ~r.success
       THEN Outcome(st, "continue", Message("retry", currentMissing), "")
       ELSE IF Len(rest) = 0
       THEN Outcome([r.st EXCEPT !.missingParameters = Array(rest),
                                 !.currentStep = CONFIRMING_DETAILS],
                    "continue", Message("confirm", ""), currentMissing)
       ELSE Outcome([r.st EXCEPT !.missingParameters = Array(rest),
                                 !.currentStep = getStepForParameter(rest[1])],
                    "continue", Message("question", rest[1]), currentMissing)

\* the step-by-step flow that moves to the next step when the answer is unusable
handleStepByStepSkipping(heard, st) ==
    LET r == processResponse(heard, st.currentStep, st)
        nextStep == determineNextStep(r.st)
        stored == FieldOfStep(st.currentStep)
    IN IF ~r.success /\ st.currentStep = CONFIRMING_DETAILS
       THEN Outcome(st, "continue", Message("error", FieldOfStep(st.currentStep)), "")
       ELSE IF st.currentStep = CONFIRMING_DETAILS /\ r.value = "confirmed"
       THEN Outcome(st, "create_issue", NoMessage, "")
       ELSE IF st.currentStep = CONFIRMING_DETAILS /\ r.value = "cancelled"
       THEN Outcome(resetState(st), "cancel", CancelledMessage, "")
       ELSE IF nextStep = CONFIRMING_DETAILS
       THEN Outcome([r.st EXCEPT !.currentStep = nextStep],
                    "continue", getQuestionForStep(nextStep), IF r.success THEN stored ELSE "")
       ELSE IF nextStep = READY_TO_CREATE
       THEN Outcome(r.st, "create_issue", NoMessage, IF r.success THEN stored ELSE "")
       ELSE Outcome(markStepAsAsked(nextStep, [r.st EXCEPT !.currentStep = nextStep]),
                    "continue", getQuestionForStep(nextStep), IF r.success THEN stored ELSE "")

\* lines 151-193 of handleIssueCreationFlow: the step-by-step flow
handleStepByStep(heard, st) ==
    LET r == processResponse(heard, st.currentStep, st)
        nextStep == determineNextStep(r.st)
        stored == FieldOfStep(st.currentStep)
    IN IF ~r.success THEN Outcome(st, "continue", Message("error", FieldOfStep(st.currentStep)), "")
       ELSE IF st.currentStep = CONFIRMING_DETAILS /\ r.value = "confirmed"
       THEN Outcome(st, "create_issue", NoMessage, "")
       ELSE IF st.currentStep = CONFIRMING_DETAILS /\ r.value = "cancelled"
       THEN Outcome(resetState(st), "cancel", CancelledMessage, "")
       ELSE IF nextStep = CONFIRMING_DETAILS
       THEN Outcome([r.st EXCEPT !.currentStep = nextStep],
                    "continue", getQuestionForStep(nextStep), stored)
       ELSE IF nextStep = READY_TO_CREATE
       THEN Outcome(r.st, "create_issue", NoMessage, stored)
       ELSE Outcome(markStepAsAsked(nextStep, [r.st EXCEPT !.currentStep = nextStep]),
                    "continue", getQuestionForStep(nextStep), stored)

\* handleIssueCreationFlow that takes anything but a refusal as the confirmation
handleIssueCreationFlowAssumingYes(heard, st) ==
    IF heard.cancellation
    THEN Outcome(resetState(st), "cancel", CancelledMessage, "")
    ELSE IF st.currentStep = CONFIRMING_DETAILS /\ st.extractedParameters # Undefined
    THEN IF heard.negative /\ ~heard.affirmative
         THEN Outcome(resetState(st), "cancel", CancelledMessage, "")
         ELSE Outcome(st, "create_issue", NoMessage, "")
    ELSE IF st.missingParameters # UndefinedArray /\ Len(st.missingParameters.items) > 0
    THEN handleMissingParameterCollection(heard, st)
    ELSE handleStepByStep(heard, st)

\* handleIssueCreationFlow that checks for cancellation after the answer is read
handleIssueCreationFlowCancelLast(heard, st) ==
    IF st.currentStep = CONFIRMING_DETAILS /\ st.extractedParameters # Undefined
    THEN IF heard.affirmative THEN Outcome(st, "create_issue", NoMessage, "")
         ELSE IF heard.negative THEN Outcome(resetState(st), "cancel", CancelledMessage, "")
         ELSE Outcome(st, "continue", Message("reprompt", ""), "")
    ELSE IF st.missingParameters # UndefinedArray /\ Len(st.missingParameters.items) > 0
    THEN handleMissingParameterCollection(heard, st)
    ELSE IF heard.cancellation
    THEN Outcome(resetState(st), "cancel", CancelledMessage, "")
    ELSE handleStepByStep(heard, st)

handleIssueCreationFlow(heard, st) ==
    IF heard.cancellation
    THEN Outcome(resetState(st), "cancel", CancelledMessage, "")
    ELSE IF st.currentStep = CONFIRMING_DETAILS /\ st.extractedParameters # Undefined
    THEN IF heard.affirmative THEN Outcome(st, "create_issue", NoMessage, "")
         ELSE IF heard.negative THEN Outcome(resetState(st), "cancel", CancelledMessage, "")
         ELSE Outcome(st, "continue", Message("reprompt", ""), "")
    ELSE IF st.missingParameters # UndefinedArray /\ Len(st.missingParameters.items) > 0
    THEN handleMissingParameterCollection(heard, st)
    ELSE handleStepByStep(heard, st)

\* the catch block of startIssueCreationWithAI
startFallback(heard, st) ==
    LET started == startIssueCreation(heard, st)
        nextStep == determineNextStep(started)
    IN Outcome(markStepAsAsked(nextStep, [started EXCEPT !.currentStep = nextStep]),
               "continue", getQuestionForStep(nextStep), "")

startIssueCreationWithAI(heard, st, extraction) ==
    LET entered == [st EXCEPT !.isCreatingIssue = TRUE, !.currentStep = AI_EXTRACTING]
        validated == extraction.validated
        missing == extraction.missing
        seeded == convertExtractedToIssueData(validated,
                      [entered EXCEPT !.extractedParameters = validated,
                                      !.missingParameters = Array(missing)])
    IN IF extraction.throws THEN startFallback(heard, entered)
       ELSE IF Len(missing) = 0 THEN Outcome(seeded, "create_issue", NoMessage, "")
       ELSE Outcome([seeded EXCEPT !.currentStep = getStepForParameter(missing[1]),
                                   !.hasAskedFor = seeded.hasAskedFor \cup {missing[1]}],
                    "continue", Message("question", missing[1]), "")

\* processUserInput that starts a session on any idle utterance that is not a search
processUserInputEager(heard, st, extraction) ==
    IF st.isCreatingIssue THEN handleIssueCreationFlow(heard, st)
    ELSE IF heard.searchIntent /\ ~heard.creationIntent THEN Outcome(st, "search", NoMessage, "")
    ELSE startIssueCreationWithAI(heard, st, extraction)

\* processUserInput that runs the model's extraction again on an answer that
\* itself reads as a request to create an issue
processUserInputReextracting(heard, st, extraction) ==
    IF st.isCreatingIssue /\ heard.creationIntent /\ ~heard.cancellation
    THEN startIssueCreationWithAI(heard, st, extraction)
    ELSE IF st.isCreatingIssue THEN handleIssueCreationFlow(heard, st)
    ELSE IF heard.creationIntent THEN startIssueCreationWithAI(heard, st, extraction)
    ELSE IF heard.searchIntent THEN Outcome(st, "search", NoMessage, "")
    ELSE Outcome(st, "regular_chat", NoMessage, "")

processUserInput(heard, st, extraction) ==
    IF st.isCreatingIssue THEN handleIssueCreationFlow(heard, st)
    ELSE IF heard.creationIntent THEN startIssueCreationWithAI(heard, st, extraction)
    ELSE IF heard.searchIntent THEN Outcome(st, "search", NoMessage, "")
    ELSE Outcome(st, "regular_chat", NoMessage, "")

(***************************************************************************)
(* ZapierService.createJiraIssue, as far as the engine observes it         *)
(***************************************************************************)
\* what the backend does with a well-formed call
BackendReplies == {"success", "failed", "tool_error", "unknown_project"}

\* "success" / "failure" (a result with success = false) / "throw"
createJiraIssue(issueData, backend) ==
    IF ~HasProp(issueData, "project") \/ ~HasProp(issueData, "title") THEN "throw"
    ELSE IF backend = "unknown_project" \/ backend = "tool_error" THEN "throw"
    ELSE IF backend = "failed" THEN "failure"
    ELSE "success"

(***************************************************************************)
(* JiraAgent: the conversation loop                                        *)
(***************************************************************************)
VARIABLES
    state,        \* JiraAgent.state: the ConversationState
    zapierReady,  \* zapierService.isReady()
    pc,           \* "read": awaiting getUserInput; "handle": before handleConversationResult; "exited"
    result,       \* what processUserInput returned in the current turn
    creation,     \* what executeIssueCreation did in the current turn
    turn,         \* what the current turn's utterance was heard as, and the state it found
    reply,        \* the language model's reply that seeded the current session
    emitted,      \* questions and summaries shown in the current session, repeats collapsed
    accepted,     \* <<field, value>> of the answers stored in the current session
    handed,       \* the records handed to createJiraIssue since the session started
    explicitData  \* what extractExplicitInformation read when the session started, {} when not called

vars ==
    <<state, zapierReady, pc, result, creation, turn, reply, emitted, accepted, handed,
      explicitData>>

\* the record of a turn: what its utterance was heard as, and the state it found
Began(heard) ==
    [step |-> state.currentStep,
     creating |-> state.isCreatingIssue,
     pending |-> state.missingParameters.items,
     cancellation |-> heard.cancellation,
     affirmative |-> heard.affirmative,
     negative |-> heard.negative,
     creationIntent |-> heard.creationIntent]

NoResult == [action |-> "none", message |-> NoMessage]

Init ==
    /\ state = InitialConversationState
    /\ zapierReady \in BOOLEAN
    /\ pc = "read"
    /\ result = NoResult
    /\ creation = "none"
    /\ turn = [step |-> DETECTING_INTENT, creating |-> FALSE, pending |-> <<>>,
               cancellation |-> FALSE, affirmative |-> FALSE, negative |-> FALSE,
               creationIntent |-> FALSE]
    /\ reply = NoReply
    /\ emitted = <<>>
    /\ accepted = <<>>
    /\ handed = <<>>
    /\ explicitData = EmptyObject

\* what a message adds to the log of questions and summaries
LogEntry(message) ==
    IF message.kind \in {"question", "retry", "error"} THEN message.about
    ELSE IF message.kind = "confirm" THEN "confirm"
    ELSE ""

Logged(log, entry) ==
    IF entry = "" \/ (Len(log) > 0 /\ log[Len(log)] = entry) THEN log ELSE Append(log, entry)

Emit(log, message) == Logged(log, LogEntry(message))

\* the end of processUserInput: the result awaits handleConversationResult
Returned(heard, out) ==
    /\ state' = out.st
    /\ result' = [action |-> out.action, message |-> out.message]
    /\ turn' = Began(heard)
    /\ pc' = "handle"
    /\ creation' = "none"
    /\ UNCHANGED zapierReady

\* a turn that starts a session: the logs of the session start afresh
Seeded(heard, extraction, out) ==
    /\ reply' = extraction.reply
    /\ emitted' = Emit(<<>>, out.message)
    /\ accepted' = <<>>
    /\ handed' = <<>>
    /\ explicitData' = IF extraction.throws THEN heard.explicit ELSE EmptyObject

\* any other turn adds to the logs of the session
Followed(out) ==
    /\ emitted' = Emit(emitted, out.message)
    /\ accepted' = IF out.stored = "" THEN accepted
                   ELSE Append(accepted, <<out.stored, out.st.issueData[PropOfField(out.stored)]>>)
    /\ UNCHANGED <<reply, handed, explicitData>>

\* a loop that reads the next utterance without awaiting handleConversationResult
ReadableBeforeHandled(heard) == pc \in {"read", "handle"} /\ ~heard.exit /\ ~heard.empty

Readable(heard) == pc = "read" /\ ~heard.exit /\ ~heard.empty

\* the utterance is the exit command: the loop ends
ExitOn(heard) ==
    /\ pc = "read"
    /\ heard.exit
    /\ pc' = "exited"
    /\ turn' = Began(heard)
    /\ result' = NoResult
    /\ creation' = "none"
    /\ UNCHANGED <<state, zapierReady, reply, emitted, accepted, handed, explicitData>>

Exit == \E heard \in Heard : ExitOn(heard)

\* an empty utterance is skipped
SkipEmptyOn(heard) ==
    /\ pc = "read"
    /\ ~heard.exit
    /\ heard.empty
    /\ turn' = Began(heard)
    /\ result' = NoResult
    /\ creation' = "none"
    /\ UNCHANGED <<state, zapierReady, pc, reply, emitted, accepted, handed, explicitData>>

SkipEmpty == \E heard \in Heard : SkipEmptyOn(heard)

\* the first turn of a session
Started(heard, extraction, out) ==
    /\ Readable(heard)
    /\ Returned(heard, out)
    /\ Seeded(heard, extraction, out)

\* any other turn handled by processUserInput
Handled(heard, out) ==
    /\ Readable(heard)
    /\ Returned(heard, out)
    /\ Followed(out)

\* idle, issue-creation intent: the session is seeded from the model's reply
StartSession ==
    \E heard \in Heard :
        /\ ~state.isCreatingIssue
        /\ heard.creationIntent
        /\ \E extraction \in Extracted :
            Started(heard, extraction, processUserInput(heard, state, extraction))

\* an utterance while an issue is being created
ContinueSession ==
    \E heard \in Heard :
        /\ state.isCreatingIssue
        /\ Handled(heard, processUserInput(heard, state, NoExtraction))

\* idle, no issue-creation intent: search or regular chat
IdleTurn ==
    \E heard \in Heard :
        /\ ~state.isCreatingIssue
        /\ ~heard.creationIntent
        /\ Handled(heard, processUserInput(heard, state, NoExtraction))

\* handleConversationResult for continue, cancel, search and regular_chat:
\* messages are shown, the conversation state is not touched
ShowResult ==
    /\ pc = "handle"
    /\ result.action \in {"continue", "cancel", "search", "regular_chat"}
    /\ pc' = "read"
    /\ UNCHANGED <<state, zapierReady, result, creation, turn, reply, emitted, accepted, handed,
                   explicitData>>

\* handleConversationResult for create_issue: executeIssueCreation, with what
\* the backend does with the call
executeIssueCreationOn(backend) ==
    /\ pc = "handle"
    /\ result.action = "create_issue"
    /\ IF ~zapierReady
       THEN creation' = "not_ready" /\ UNCHANGED handed
       ELSE /\ creation' = createJiraIssue(state.issueData, backend)
            /\ handed' = Append(handed, state.issueData)
    /\ state' = resetState(state)
    /\ pc' = "read"
    /\ UNCHANGED <<zapierReady, result, turn, reply, emitted, accepted, explicitData>>

\* executeIssueCreation without the finally block: the state is reset only
\* when createJiraIssue returns
ExecuteIssueCreationWithoutFinally ==
    \E backend \in BackendReplies :
        /\ pc = "handle"
        /\ result.action = "create_issue"
        /\ IF ~zapierReady
           THEN creation' = "not_ready" /\ UNCHANGED handed
           ELSE /\ creation' = createJiraIssue(state.issueData, backend)
                /\ handed' = Append(handed, state.issueData)
        /\ state' = IF zapierReady /\ createJiraIssue(state.issueData, backend) = "throw"
                    THEN state ELSE resetState(state)
        /\ pc' = "read"
        /\ UNCHANGED <<zapierReady, result, turn, reply, emitted, accepted, explicitData>>

ExecuteIssueCreation == \E backend \in BackendReplies : executeIssueCreationOn(backend)

Next ==
    \/ Exit
    \/ SkipEmpty
    \/ StartSession
    \/ ContinueSession
    \/ IdleTurn
    \/ ShowResult
    \/ ExecuteIssueCreation

Spec == Init /\ [][Next]_vars

(***************************************************************************)
(* The same loop under a sweep of the language model's replies: every      *)
(* pair of text guesses for title and description, every profile of        *)
(* guesses for type, project and priority, and a few utterances            *)
(***************************************************************************)
\* JSON without the parameter: normalizeParameter sees undefined
Missing == [present |-> FALSE, value |-> Null, confidence |-> 0]

\* guesses for a text field: no value, a value below, at and above the
\* threshold, and confidences that are out of range or no number
TextGuesses(text) ==
    { Missing, Absent, Guess(Null, 9),
      Guess(Str(text), 5), Guess(Str(text), 6),
      Guess(Str(text), 15), Guess(Str(text), 0 - 2), Guess(Str(text), NaN) }

\* <<type, project, priority>>
EnumerationProfiles ==
    { <<Absent, Absent, Absent>>,
      <<Guess(Str("Task"), 6), Guess(Str("Engineering"), 6), Guess(Str("High"), 6)>>,
      <<Guess(Str("Task"), 5), Guess(Str("eng"), 5), Guess(Str("High"), 5)>>,
      <<Guess(Str("Feature"), 9), Guess(Str("Marketing"), 9), Guess(Str("Urgent"), 9)>>,
      <<Guess(Str("Feature"), 4), Guess(Str("Marketing"), 4), Guess(Str("Urgent"), 4)>>,
      <<Guess(Null, 9), Guess(Null, 9), Guess(Null, 9)>>,
      <<Guess(Str("Story"), NaN), Guess(Str("dpd"), NaN), Guess(Str("Low"), NaN)>>,
      <<Guess(Str("Epic"), 15), Guess(Str("FV Product"), 15), Guess(Str("Lowest"), 15)>> }

\* every pair of text guesses with no enumeration guessed
TextSweep ==
    { Parsed(title, description, Absent, Absent, Absent) :
        title \in TextGuesses("Login broken"),
        description \in TextGuesses("Crash on submit") }

\* every enumeration profile, with both texts guessed well and with neither
EnumerationSweep ==
    { Parsed(texts[1], texts[2], profile[1], profile[2], profile[3]) :
        texts \in { <<Absent, Absent>>, <<GoodTitle, GoodDescription>> },
        profile \in EnumerationProfiles }

SweptReplies == TextSweep \cup EnumerationSweep

SweptExtracted == { Extract(modelReply) : modelReply \in SweptReplies }

FewUtterances ==
    { "create a bug", "App crashes", "skip", "yes", "stop", "no", "no, do not create it" }

FewHeard == { Hear(userInput) : userInput \in FewUtterances }

StartSweptSession ==
    \E heard \in FewHeard :
        /\ ~state.isCreatingIssue
        /\ heard.creationIntent
        /\ \E extraction \in SweptExtracted :
            Started(heard, extraction, processUserInput(heard, state, extraction))

ContinueSweptSession ==
    \E heard \in FewHeard :
        /\ state.isCreatingIssue
        /\ Handled(heard, processUserInput(heard, state, NoExtraction))

SweepNext ==
    \/ StartSweptSession
    \/ ContinueSweptSession
    \/ ShowResult
    \/ ExecuteIssueCreation

ExtractionSpec == Init /\ [][SweepNext]_vars

(***************************************************************************)
(* The answers to the follow-up questions: the canonical names offered in  *)
(* the questions, the documented shortcuts, the words that skip the        *)
(* description, and answers no extractor can use, given to a session that  *)
(* asks for title and description (the model found nothing) and to a       *)
(* session that asks step by step (the validator threw).                    *)
(***************************************************************************)
AnswerUtterances ==
    { "create an issue", "App crashes", "yes", "cancel",
      "skip", "none", "no description", " SKIP ",
      "eng", "demo product", "product", "FV Demo (Product)",
      "dpd", "Task", "Highest", "critical" }

AnswerHeard == { Hear(userInput) : userInput \in AnswerUtterances }

AnswerReplies ==
    { Parsed(Absent, Absent, Absent, Absent, Absent),
      Parsed(Absent, Absent, Guess(Str("Task"), 9), Guess(Str("eng"), 8), Guess(Str("High"), 7)),
      Parsed(Absent, Absent, Absent, Guess(NonString, 9), Absent) }

AnswerExtracted == { Extract(modelReply) : modelReply \in AnswerReplies }

StartAnswerSession ==
    \E heard \in AnswerHeard :
        /\ ~state.isCreatingIssue
        /\ heard.creationIntent
        /\ \E extraction \in AnswerExtracted :
            Started(heard, extraction, processUserInput(heard, state, extraction))

ContinueAnswerSession ==
    \E heard \in AnswerHeard :
        /\ state.isCreatingIssue
        /\ Handled(heard, processUserInput(heard, state, NoExtraction))

AnswerNext ==
    \/ StartAnswerSession
    \/ ContinueAnswerSession
    \/ ShowResult
    \/ ExecuteIssueCreation

AnswerSpec == Init /\ [][AnswerNext]_vars

\* conversationLoop is while (true): a turn that can be taken is taken
FairAnswerSpec == AnswerSpec /\ WF_vars(AnswerNext)

(***************************************************************************)
(* The creation of a confirmed record with the search for similar issues:  *)
(* JiraAgent.attemptIssueCreation, which searches with                     *)
(* ZapierService.findSimilarIssues, and IssueManager.createIssue, which    *)
(* searches with checkForDuplicates; executeIssueCreation makes no search. *)
(***************************************************************************)
\* what the search backend does: issues similar to the title, issues that are
\* not similar to it, no issue, or a failed call
SearchReplies == {"similar", "unrelated", "none", "error"}

\* ZapierService.findSimilarIssues: are there results with similarity > 0.3
\* (a failed search is caught and gives the empty list)
findSimilarIssues(search) == search = "similar"

\* IssueManager.checkForDuplicates: any result makes it ask the user whether
\* to continue; no result or a failed search proceeds
checkForDuplicates(search, shouldContinue) ==
    IF search \in {"similar", "unrelated"} THEN shouldContinue ELSE TRUE

\* the records a user confirms
ConfirmedRecords ==
    { SetProp(SetProp(SetProp(SetProp(EmptyObject,
          "project", project), "issueType", type), "title", title), "priority", priority) :
        project \in {"FV Demo (Issues)", "FV Demo (Product)", "FV Engineering", "FV Product"},
        type \in validTypes,
        title \in {"Login broken", "App crashes"},
        priority \in {"Low", "Medium", "High"} }

\* createIssueGuided up to the confirmation: the record is collected and the
\* user confirms it
ConfirmRecord ==
    \E issueData \in ConfirmedRecords :
        /\ pc = "read"
        /\ state' = [state EXCEPT !.isCreatingIssue = TRUE,
                                  !.issueData = issueData,
                                  !.currentStep = CONFIRMING_DETAILS]
        /\ result' = [action |-> "create_issue", message |-> NoMessage]
        /\ creation' = "none"
        /\ handed' = <<>>
        /\ pc' = "handle"
        /\ UNCHANGED <<zapierReady, turn, reply, emitted, accepted, explicitData>>

\* resetIssueState of JiraAgent, and the end of IssueManager's workflow
resetIssueState(st) == [st EXCEPT !.isCreatingIssue = FALSE, !.issueData = EmptyObject]

attemptIssueCreationOn(search, backend) ==
    /\ pc = "handle"
    /\ result.action = "create_issue"
    /\ IF ~zapierReady
       THEN creation' = "not_ready" /\ UNCHANGED handed
       ELSE /\ creation' = createJiraIssue(state.issueData, backend)
            /\ handed' = Append(handed, state.issueData)
    /\ state' = resetIssueState(state)
    /\ pc' = "read"
    /\ UNCHANGED <<zapierReady, result, turn, reply, emitted, accepted, explicitData>>

AttemptIssueCreation ==
    \E search \in SearchReplies, backend \in BackendReplies :
        attemptIssueCreationOn(search, backend)

\* IssueManager.createIssue: a failed creation call falls back to a mock issue
createIssueOn(search, shouldContinue, backend) ==
    /\ pc = "handle"
    /\ result.action = "create_issue"
    /\ IF ~checkForDuplicates(search, shouldContinue)
       THEN creation' = "cancelled_duplicates" /\ UNCHANGED handed
       ELSE /\ creation' = IF backend = "success" THEN "success" ELSE "mock"
            /\ handed' = Append(handed, state.issueData)
    /\ state' = resetIssueState(state)
    /\ pc' = "read"
    /\ UNCHANGED <<zapierReady, result, turn, reply, emitted, accepted, explicitData>>

CreateIssue ==
    \E search \in SearchReplies, shouldContinue \in BOOLEAN, backend \in BackendReplies :
        createIssueOn(search, shouldContinue, backend)

\* what the user is shown for the outcome of a creation: displaySuccessResult
\* and showSuccess print the key and the link of the issue; the catch block of
\* IssueManager.createIssue prints the error and then the mock issue's
Shown(outcome) ==
    IF outcome = "success" THEN {"created", "key", "link"}
    ELSE IF outcome = "mock" THEN {"error", "created", "key", "link"}
    ELSE IF outcome \in {"failure", "throw", "not_ready"} THEN {"error"}
    ELSE IF outcome = "cancelled_duplicates" THEN {"warning"}
    ELSE {}

SearchNext ==
    \/ ConfirmRecord
    \/ AttemptIssueCreation
    \/ CreateIssue
    \/ ExecuteIssueCreation

SearchSpec == Init /\ [][SearchNext]_vars

(***************************************************************************)
(* The answers to the title question: titles whose trimmed length is       *)
(* below, at and above the length the error message of handleTitleResponse *)
(* names                                                                   *)
(***************************************************************************)
TitleUtterances ==
    { "create an issue", " Bug ", "Bugs", "Crash", "  Crash ", "Crashs", "App crashes",
      "skip", "yes", "cancel" }

TitleHeard == { Hear(userInput) : userInput \in TitleUtterances }

TitleReplies ==
    { Parsed(Absent, Absent, Absent, Absent, Absent),
      Parsed(Absent, GoodDescription, Absent, Absent, Absent) }

TitleExtracted == { Extract(modelReply) : modelReply \in TitleReplies }

StartTitleSession ==
    \E heard \in TitleHeard :
        /\ ~state.isCreatingIssue
        /\ heard.creationIntent
        /\ \E extraction \in TitleExtracted :
            Started(heard, extraction, processUserInput(heard, state, extraction))

ContinueTitleSession ==
    \E heard \in TitleHeard :
        /\ state.isCreatingIssue
        /\ Handled(heard, processUserInput(heard, state, NoExtraction))

TitleNext ==
    \/ StartTitleSession
    \/ ContinueTitleSession
    \/ ShowResult
    \/ ExecuteIssueCreation

TitleSpec == Init /\ [][TitleNext]_vars

(***************************************************************************)
(* Properties                                                              *)
(***************************************************************************)
\* the record of the session holds the three defaults
Defaulted(issueData) ==
    /\ HasProp(issueData, "issueType") /\ issueData["issueType"] = "Bug"
    /\ HasProp(issueData, "project") /\ issueData["project"] = "FV Demo (Issues)"
    /\ HasProp(issueData, "priority") /\ issueData["priority"] = "Medium"

\* the session stands where n answers have been accepted: title, then description
TitleThenDescription(n) ==
    \/ /\ n = 0
       /\ state.missingParameters.items = <<"title", "description">>
       /\ state.currentStep = ASKING_TITLE
       /\ emitted = <<"title">>
    \/ /\ n = 1
       /\ accepted[1][1] = "title"
       /\ state.missingParameters.items = <<"description">>
       /\ state.currentStep = ASKING_DESCRIPTION
       /\ emitted = <<"title", "description">>
    \/ /\ n = 2
       /\ accepted[1][1] = "title"
       /\ accepted[2][1] = "description"
       /\ state.missingParameters.items = <<>>
       /\ state.currentStep = CONFIRMING_DETAILS
       /\ emitted = <<"title", "description", "confirm">>

\* the model's guess carries a value at the acceptance threshold
Confident(guess) == Truthy(guess.value) /\ ConfGE(guess.confidence, ConfidenceThreshold)

\* the model's guess carries no value
Valueless(guess) == ~Truthy(guess.value)

\* the turn that has just been processed started a session
IntentTurn == pc = "handle" /\ ~turn.creating /\ turn.creationIntent

\* C1: a ticket is never created without confirmation: create_issue is emitted
\* only by a turn that began in the confirming step with an affirmative
\* utterance, never by the turn that detects the issue-creation intent.
C1_CreationOnlyOnConfirmation ==
    result.action = "create_issue" =>
        /\ turn.creating
        /\ turn.step = CONFIRMING_DETAILS
        /\ turn.affirmative

\* C2: zero-question path: when the reply to the intent utterance has title and
\* description each with a value at confidence >= 0.6, the turn ends in the
\* confirming step, the summary shown, and no field question has been emitted.
C2_ZeroQuestionEndsConfirming ==
    ( /\ IntentTurn
      /\ reply.outcome = "ok"
      /\ Confident(reply.params.title)
      /\ Confident(reply.params.description) ) =>
        /\ state.isCreatingIssue
        /\ state.currentStep = CONFIRMING_DETAILS
        /\ result.action = "continue"
        /\ result.message.kind = "confirm"
        /\ emitted = <<"confirm">>

TypeAndProjectOnly(modelReply) ==
    /\ modelReply.outcome = "ok"
    /\ Confident(modelReply.params.type)
    /\ Confident(modelReply.params.project)
    /\ Valueless(modelReply.params.title)
    /\ Valueless(modelReply.params.description)
    /\ Valueless(modelReply.params.priority)

\* the record made of the canonicalised extraction and of two answers
RecordOf(canonical, answers) ==
    [project |-> canonical["project"].value.s,
     issueType |-> canonical["type"].value.s,
     priority |-> "Medium",
     title |-> answers[1][2],
     description |-> answers[2][2]]

\* C4: for an extraction with type and project at confidence >= 0.6 and title,
\* description and priority absent, priority is defaulted to Medium, the engine
\* asks for title, then description, then shows the confirmation, and after
\* "yes" the record handed to createJiraIssue has exactly the canonicalised
\* project and type, priority Medium, and the two answers as title and
\* description.
C4_TypeAndProjectExtracted ==
    TypeAndProjectOnly(reply) =>
        /\ state.isCreatingIssue =>
            /\ HasProp(state.issueData, "priority")
            /\ state.issueData["priority"] = "Medium"
            /\ TitleThenDescription(Len(accepted))
        /\ Len(handed) > 0 =>
            /\ Len(handed) = 1
            /\ Len(accepted) = 2
            /\ result.action = "create_issue" =>
                   (turn.step = CONFIRMING_DETAILS /\ turn.affirmative)
            /\ handed[1] = RecordOf(validateExtractedParameters(extractParameters(reply)),
                                    accepted)

C4_Witness ==
    /\ TypeAndProjectOnly(reply)
    /\ Len(handed) = 1
    /\ handed[1]["project"] = "FV Engineering"
    /\ handed[1]["issueType"] = "Task"
    /\ handed[1]["description"] = ""
    /\ creation = "success"

\* the state a session started by an intent utterance on a fresh agent would have
FreshlyStarted(st, modelReply) ==
    \E heard \in Heard :
        /\ heard.creationIntent
        /\ \E extraction \in Extracted :
            /\ extraction.reply = modelReply
            /\ st = processUserInput(heard, InitialConversationState, extraction).st

\* a cancellation keyword is received while collecting, title and description pending
CancelWhileBothPending ==
    /\ turn.creating
    /\ turn.cancellation
    /\ turn.step \notin {CONFIRMING_DETAILS, DETECTING_INTENT}
    /\ turn.pending = <<"title", "description">>

\* C5: a cancellation keyword received while collecting with title and
\* description both pending ends the session as cancelled in that turn, and the
\* next intent utterance starts a session whose record and pending fields are
\* computed from that utterance alone: nothing of the cancelled session shows.
C5_CancelledSessionInvisible ==
    [][ /\ (pc' = "handle" /\ CancelWhileBothPending') =>
            (result'.action = "cancel" /\ ~state'.isCreatingIssue)
        /\ (pc = "read" /\ CancelWhileBothPending /\ IntentTurn') =>
            FreshlyStarted(state', reply') ]_vars

\* C6: cancellation clears the whole slot state: after a cancelling turn the
\* record, the pending fields and the asked fields are empty, no extraction
\* result is retained, and the mode is idle.
C6_CancelClearsEverything ==
    (pc = "handle" /\ result.action = "cancel") =>
        /\ ~state.isCreatingIssue
        /\ state.currentStep = DETECTING_INTENT
        /\ state.issueData = EmptyObject
        /\ state.hasAskedFor = {}
        /\ state.missingParameters.items = <<>>
        /\ state.extractedParameters = Undefined

\* C7: in every turn taken while an issue is being created, an utterance
\* containing "cancel", "stop" or "abort" cancels the session: it is never
\* stored as a field value and never triggers creation.
C7_CancellationFirst ==
    [][ (pc = "read" /\ state.isCreatingIssue /\ pc' = "handle" /\ turn'.cancellation) =>
            /\ result'.action = "cancel"
            /\ ~state'.isCreatingIssue
            /\ state'.issueData = EmptyObject
            /\ accepted' = accepted
            /\ handed' = handed ]_vars

C7_Witness ==
    /\ pc = "handle"
    /\ turn.creating
    /\ turn.cancellation
    /\ turn.step = CONFIRMING_DETAILS
    /\ result.action = "cancel"
    /\ Len(accepted) = 2

\* C8: after every turn that emits create_issue or cancel the state is idle
\* (not creating, empty record, step detecting_intent, asked set empty) before
\* the next utterance is read, whether the creation succeeded, failed, threw
\* or was skipped because the service was not ready.
C8_IdleAfterTerminalTurn ==
    (pc = "read" /\ result.action \in {"create_issue", "cancel"}) =>
        /\ ~state.isCreatingIssue
        /\ state.issueData = EmptyObject
        /\ state.currentStep = DETECTING_INTENT
        /\ state.hasAskedFor = {}
        /\ result.action = "create_issue" =>
               creation \in {"success", "failure", "throw", "not_ready"}

C8_Witness ==
    /\ pc = "read"
    /\ result.action = "create_issue"
    /\ creation = "failure"
    /\ turn.step = CONFIRMING_DETAILS
    /\ ~state.isCreatingIssue

\* C9: creation is attempted at most once per session, and after a failure
\* the engine is idle with the record discarded; createJiraIssue is invoked
\* only by a confirmation given in a session that an intent utterance started.
C9_OneAttemptPerConfirmedSession ==
    [][ (Len(handed') > Len(handed)) =>
            /\ Len(handed) = 0
            /\ turn.creating
            /\ turn.step = CONFIRMING_DETAILS
            /\ turn.affirmative
            /\ ~state'.isCreatingIssue
            /\ state'.issueData = EmptyObject ]_vars

\* C10: no pending field has an extracted value with confidence >= 0.6 and a
\* source other than default.
C10_PendingNotConfident ==
    \A i \in 1..Len(state.missingParameters.items) :
        \/ state.extractedParameters = Undefined
        \/ ~AtThreshold(state.extractedParameters[state.missingParameters.items[i]],
                        ConfidenceThreshold)
        \/ state.extractedParameters[state.missingParameters.items[i]].source = "default"

C10_Witness ==
    /\ state.isCreatingIssue
    /\ state.missingParameters.items = <<"title">>
    /\ Truthy(state.extractedParameters["title"].value)
    /\ AtThreshold(state.extractedParameters["description"], ConfidenceThreshold)

\* the default of an enumeration field
DefaultOf(field) ==
    IF field = "type" THEN DefaultType
    ELSE IF field = "project" THEN DefaultProject
    ELSE DefaultPriority

\* the text field is in the record with the guessed value and is not pending
StoredNotQueued(field, guess) ==
    /\ HasProp(state.issueData, field)
    /\ state.issueData[field] = guess.value.s
    /\ \A i \in 1..Len(state.missingParameters.items) : state.missingParameters.items[i] # field

\* the text field is pending and not in the record
QueuedNotStored(field) ==
    /\ field \notin DOMAIN state.issueData
    /\ \E i \in 1..Len(state.missingParameters.items) : state.missingParameters.items[i] = field

\* the enumeration guess survives extractParameters as the model gave it
KeptAsGuessed(extracted, field, guess) ==
    /\ extracted[field].source = "ai_extracted"
    /\ extracted[field].value = guess.value

\* C11: the acceptance boundary is exactly 0.6, inclusive: an extracted title or
\* description is stored and not queued iff it has a value and confidence
\* >= 0.6, otherwise it is queued; an extracted type, project or priority is
\* kept iff it has a value and confidence >= 0.6, otherwise it is replaced by
\* its default.
C11_AcceptanceBoundary ==
    (IntentTurn /\ reply.outcome = "ok") =>
        /\ \A field \in {"title", "description"} :
            IF Confident(reply.params[field])
            THEN StoredNotQueued(field, reply.params[field])
            ELSE QueuedNotStored(field)
        /\ \A field \in {"type", "project", "priority"} :
            IF Confident(reply.params[field])
            THEN KeptAsGuessed(extractParameters(reply), field, reply.params[field])
            ELSE extractParameters(reply)[field] = DefaultOf(field)

\* the current session was seeded by the extraction, not by the fallback
SeededByExtraction ==
    reply.outcome # "none" /\ ~validateThrows(extractParameters(reply))

\* the record's value is the model's guess, accepted at the threshold
FromModel(field) ==
    /\ SeededByExtraction
    /\ AtThreshold(state.extractedParameters[field], ConfidenceThreshold)
    /\ state.extractedParameters[field].source = "ai_extracted"
    /\ state.extractedParameters[field].value.s = state.issueData[field]

\* the record's value is a follow-up answer of the session
FromAnswer(field) ==
    \E i \in 1..Len(accepted) : accepted[i] = <<field, state.issueData[field]>>

\* the record's value was read from the intent utterance by the fallback
FromUtterance(field) ==
    /\ HasProp(explicitData, field)
    /\ explicitData[field] = state.issueData[field]

\* no default is assigned to the field
NeverDefaulted(field) ==
    \/ state.extractedParameters = Undefined
    \/ state.extractedParameters[field].source # "default"

\* C12 as claimed: the title and the description of the record are unset, a
\* model-extracted value accepted at confidence >= 0.6, or a follow-up answer,
\* and no default is assigned to them.
C12_TextFromModelOrAnswer ==
    \A field \in {"title", "description"} :
        /\ field \in DOMAIN state.issueData => (FromModel(field) \/ FromAnswer(field))
        /\ NeverDefaulted(field)

\* C12 as amended: the title and the description of the record are unset, a
\* model-extracted value accepted at confidence >= 0.6, a follow-up answer, or
\* the quoted title the fallback read from the intent utterance, and no
\* default is assigned to them.
C12_TextFromModelAnswerOrUtterance ==
    \A field \in {"title", "description"} :
        /\ field \in DOMAIN state.issueData =>
            \/ FromModel(field)
            \/ FromAnswer(field)
            \/ field = "title" /\ FromUtterance(field)
        /\ NeverDefaulted(field)

C12_Witness ==
    /\ state.isCreatingIssue
    /\ HasProp(state.issueData, "title")
    /\ FromUtterance("title")
    /\ ~FromAnswer("title")
    /\ HasProp(state.issueData, "description")
    /\ FromAnswer("description")

\* C13: pendingFields is one of [], [title], [description], [title, description]:
\* type, project and priority never appear in it and title precedes description.
C13_PendingTitleThenDescription ==
    state.missingParameters.items \in
        { <<>>, <<"title">>, <<"description">>, <<"title", "description">> }

C13_Witness ==
    /\ state.isCreatingIssue
    /\ Len(accepted) = 0
    /\ state.missingParameters.items = <<"description">>
    /\ state.currentStep = ASKING_DESCRIPTION

\* the guess is a string that maps to no canonical value or alias of the field
Unmappable(field, guess) ==
    /\ guess.present
    /\ guess.value.kind = "string"
    /\ guess.value.s # ""
    /\ IF field = "type" THEN guess.value.s \notin validTypes
       ELSE IF field = "priority" THEN guess.value.s \notin validPriorities
       ELSE /\ Lookup(validatorProjectMapping, trim(toLowerCase(guess.value.s)), 1) = Null
            /\ FindFullName(trim(toLowerCase(guess.value.s)), validFullNames, 1) = Null

SummaryTurn ==
    /\ pc = "handle"
    /\ turn.creating
    /\ Len(turn.pending) = 1
    /\ result.message.kind = "confirm"

\* C15: every extracted value has a confidence in [0,1], and a field whose
\* value is absent is treated as confidence 0 whatever confidence was
\* reported: it is queued or defaulted as missing, and the summary never marks
\* it as extracted by the model.
C15_AbsentValueIsConfidenceZero ==
    /\ state.extractedParameters # Undefined =>
        \A field \in ParameterNames :
            state.extractedParameters[field].confidence \in 0..FullConfidence
    /\ (IntentTurn /\ reply.outcome = "ok") =>
        /\ \A field \in {"title", "description"} :
            Valueless(reply.params[field]) => QueuedNotStored(field)
        /\ \A field \in {"type", "project", "priority"} :
            Valueless(reply.params[field]) =>
                state.extractedParameters[field] = DefaultOf(field)
    /\ SummaryTurn =>
        \A field \in {"title", "description"} :
            Valueless(state.extractedParameters[field]) =>
                displayAIExtractedSummary(state)[field] # "AI extracted"

\* C16: canonicalisation is idempotent for type, priority and project: a
\* value stored from an answer, fed back to the extractor that read it, gives
\* the same value, and the parameters the validator returned, fed back to the
\* validator, come back unchanged.
C16_CanonicalisationIdempotent ==
    /\ \A i \in 1..Len(accepted) :
        accepted[i][1] \in {"type", "project", "priority"} =>
            extractFromResponse(accepted[i][1], accepted[i][2]) = Str(accepted[i][2])
    /\ (IntentTurn /\ reply.outcome = "ok" /\ state.extractedParameters # Undefined) =>
        /\ ~validateThrows(state.extractedParameters)
        /\ validateExtractedParameters(state.extractedParameters) = state.extractedParameters

\* the project the documentation gives for a shortcut or a full name ("" for
\* any other answer)
DocumentedProject(userInput) ==
    LET answer == trim(toLowerCase(userInput))
    IN IF answer \in {"eng", "engineering", "fv engineering"} THEN "FV Engineering"
       ELSE IF answer \in {"demo product", "fv demo (product)"} THEN "FV Demo (Product)"
       ELSE IF answer \in {"product", "prod", "fv product"} THEN "FV Product"
       ELSE IF answer \in {"demo", "issues", "fv demo (issues)"} THEN "FV Demo (Issues)"
       ELSE ""

\* C17: when project is the pending field, an answer that is a documented
\* shortcut or a full project name is stored as the project the documentation
\* gives for it.
C17_ShortcutGivesItsProject ==
    [][\A heard \in AnswerHeard :
        ( /\ state.isCreatingIssue
          /\ state.currentStep = ASKING_PROJECT
          /\ ~heard.cancellation
          /\ DocumentedProject(heard.input) # ""
          /\ Handled(heard, processUserInput(heard, state, NoExtraction)) ) =>
            /\ HasProp(state'.issueData, "project")
            /\ state'.issueData["project"] = DocumentedProject(heard.input)]_vars

\* the field whose answer the next utterance is read as ("" when none is)
PendingField(st) ==
    IF ~st.isCreatingIssue THEN ""
    ELSE IF st.currentStep = CONFIRMING_DETAILS /\ st.extractedParameters # Undefined THEN ""
    ELSE IF Len(st.missingParameters.items) > 0 THEN st.missingParameters.items[1]
    ELSE FieldOfStep(st.currentStep)

\* nothing but the field answered now is left to collect
LastPending(st) ==
    IF Len(st.missingParameters.items) > 0 THEN Len(st.missingParameters.items) = 1
    ELSE HasProp(st.issueData, "priority") \/ "priority" \in st.hasAskedFor

SkipsDescription(heard) ==
    trim(toLowerCase(heard.input)) \in {"skip", "none", "no description"}

\* C18: when description is the pending field, the answers "skip", "none" and
\* "no description" (case-insensitive, trimmed) make description known with
\* the empty string: it leaves the pending fields, it is not asked again, and
\* the session goes on, to the confirmation when nothing else is pending.
C18_SkipMakesDescriptionEmpty ==
    [][\A heard \in AnswerHeard :
        ( /\ PendingField(state) = "description"
          /\ SkipsDescription(heard)
          /\ Handled(heard, processUserInput(heard, state, NoExtraction)) ) =>
            /\ "description" \in DOMAIN state'.issueData
            /\ state'.issueData["description"] = ""
            /\ state'.isCreatingIssue
            /\ PendingField(state') # "description"
            /\ \A i \in 1..Len(state'.missingParameters.items) :
                state'.missingParameters.items[i] # "description"
            /\ result'.action = "continue"
            /\ result'.message.kind \in {"question", "confirm"}
            /\ result'.message.about # "description"
            /\ LastPending(state) =>
                /\ state'.currentStep = CONFIRMING_DETAILS
                /\ result'.message.kind = "confirm"]_vars

C18_Witness ==
    /\ pc = "handle"
    /\ turn.creating
    /\ turn.pending = <<"description">>
    /\ state.currentStep = CONFIRMING_DETAILS
    /\ "description" \in DOMAIN state.issueData
    /\ state.issueData["description"] = ""
    /\ HasProp(state.issueData, "title")

\* the utterance is read by handleMissingParameterCollection as the answer for
\* the head of the pending parameters
Collecting(heard) ==
    /\ state.isCreatingIssue
    /\ ~heard.cancellation
    /\ ~(state.currentStep = CONFIRMING_DETAILS /\ state.extractedParameters # Undefined)
    /\ Len(state.missingParameters.items) > 0

\* the deterministic extractor reads a value for the field from the utterance
Usable(heard, field) == field = "description" \/ Truthy(heard.answer[field])

\* C19: while collecting, when the extractor yields no usable value for the
\* head of the pending fields, the same field's question is emitted again with
\* the "Please provide a valid response." suffix, and the record, the pending
\* fields, the asked fields and the step are unchanged.
C19_RetryDoesNotAdvance ==
    [][\A heard \in AnswerHeard :
        ( /\ Collecting(heard)
          /\ ~Usable(heard, state.missingParameters.items[1])
          /\ Handled(heard, processUserInput(heard, state, NoExtraction)) ) =>
            /\ result'.action = "continue"
            /\ result'.message = Message("retry", state.missingParameters.items[1])
            /\ state'.issueData = state.issueData
            /\ state'.missingParameters = state.missingParameters
            /\ state'.hasAskedFor = state.hasAskedFor
            /\ state'.currentStep = state.currentStep]_vars

C19_Witness ==
    /\ pc = "handle"
    /\ turn.creating
    /\ result.message = Message("retry", "title")
    /\ turn.pending = <<"title", "description">>
    /\ state.missingParameters.items = <<"title", "description">>
    /\ state.currentStep = ASKING_TITLE

\* C20: while collecting, after a usable answer for the head field of the
\* pending fields, the record holds that answer for the field, the field is no
\* longer pending, and the field is among the asked fields.
C20_AcceptedAnswerIsRecordedAndAsked ==
    [][\A heard \in AnswerHeard :
        ( /\ Collecting(heard)
          /\ Usable(heard, state.missingParameters.items[1])
          /\ Handled(heard, processUserInput(heard, state, NoExtraction)) ) =>
            /\ PropOfField(state.missingParameters.items[1]) \in DOMAIN state'.issueData
            /\ state'.issueData[PropOfField(state.missingParameters.items[1])]
                   = heard.answer[state.missingParameters.items[1]].s
            /\ \A i \in 1..Len(state'.missingParameters.items) :
                state'.missingParameters.items[i] # state.missingParameters.items[1]
            /\ state.missingParameters.items[1] \in state'.hasAskedFor]_vars

\* C21 as claimed: the same field question is not repeated without bound: no
\* execution stays for ever in the collecting step of one field.
C21_NoFieldAskedForever ==
    \A field \in ParameterNames : []<>(PendingField(state) # field)

\* C21 as amended: the question of a field is repeated after every unusable
\* answer, with no bound and whatever the asked fields are: the turn changes
\* nothing and emits the field's question or error message again; the first
\* usable answer leaves the field.
C21_ReaskedUntilUsable ==
    [][\A heard \in AnswerHeard :
        ( /\ PendingField(state) \in ParameterNames
          /\ ~heard.cancellation
          /\ Handled(heard, processUserInput(heard, state, NoExtraction)) ) =>
            IF Usable(heard, PendingField(state))
            THEN PendingField(state') # PendingField(state)
            ELSE /\ state' = state
                 /\ result'.action = "continue"
                 /\ result'.message.kind \in {"retry", "error"}
                 /\ result'.message.about = PendingField(state)]_vars

C21_Witness ==
    /\ pc = "handle"
    /\ turn.creating
    /\ turn.step = ASKING_TYPE
    /\ state.currentStep = ASKING_TYPE
    /\ result.message = Message("error", "type")
    /\ "type" \in state.hasAskedFor

\* the session is in the confirming step
Confirming(st) == st.isCreatingIssue /\ st.currentStep = CONFIRMING_DETAILS

\* C22: in the confirming step, an utterance that is neither an affirmative, a
\* negative nor a cancellation keyword leaves the engine in the confirming
\* step with the record (and the rest of the state) unchanged and re-prompts
\* for yes or no; creation is not invoked.  The state being the same, this
\* can repeat any number of times.
C22_UnrecognisedConfirmationReprompts ==
    [][\A heard \in AnswerHeard :
        ( /\ Confirming(state)
          /\ ~heard.affirmative
          /\ ~heard.negative
          /\ ~heard.cancellation
          /\ Handled(heard, processUserInput(heard, state, NoExtraction)) ) =>
            /\ state' = state
            /\ result'.action = "continue"
            /\ result'.message.kind \in {"reprompt", "error"}
            /\ creation' = "none"
            /\ handed' = handed]_vars

C22_Witness ==
    /\ pc = "handle"
    /\ turn.step = CONFIRMING_DETAILS
    /\ turn.creating
    /\ ~turn.affirmative
    /\ ~turn.negative
    /\ ~turn.cancellation
    /\ Confirming(state)
    /\ result.message.kind = "reprompt"
    /\ HasProp(state.issueData, "title")

\* the utterance contains "no"
ContainsNo(heard) == includes(toLowerCase(heard.input), "no")

\* C23: in the confirming step an explicit "no" cancels: an utterance
\* containing "no" ends the session as cancelled and does not result in the
\* record being handed to the creation collaborator.
C23_NoCancelsConfirmation ==
    [][\A heard \in FewHeard :
        ( /\ Confirming(state)
          /\ ContainsNo(heard)
          /\ Handled(heard, processUserInput(heard, state, NoExtraction)) ) =>
            /\ result'.action = "cancel"
            /\ ~state'.isCreatingIssue]_vars

\* the record after the answer for the field was stored
Answered(issueData, heard, field) ==
    SetProp(issueData, PropOfField(field), heard.answer[field].s)

\* C24: the model's extraction is made on the idle utterance that starts a
\* session and on no other: a turn taken while collecting or confirming
\* leaves the model's reply and the extracted parameters as they were, and
\* changes the record only by storing what the deterministic extractor reads
\* for the pending field (or by clearing it on a cancellation).
C24_ExtractionOnlyAtSessionStart ==
    [][ /\ (pc = "read" /\ IntentTurn') => reply'.outcome # "none"
        /\ reply' # reply => (~state.isCreatingIssue /\ IntentTurn')
        /\ \A heard \in Heard :
            ( /\ state.isCreatingIssue
              /\ Handled(heard, processUserInput(heard, state, NoExtraction)) ) =>
                /\ reply' = reply
                /\ state'.extractedParameters = state.extractedParameters
                /\ \/ state'.issueData = state.issueData
                   \/ /\ PendingField(state) \in ParameterNames
                      /\ Usable(heard, PendingField(state))
                      /\ state'.issueData = Answered(state.issueData, heard, PendingField(state))
                   \/ /\ result'.action = "cancel"
                      /\ state'.issueData = EmptyObject ]_vars

C24_Witness ==
    /\ pc = "handle"
    /\ turn.creating
    /\ turn.pending = <<"title", "description">>
    /\ state.missingParameters.items = <<"description">>
    /\ reply.outcome = "ok"
    /\ HasProp(state.issueData, "title")
    /\ accepted = <<<<"title", state.issueData["title"]>>>>

\* C25: in idle mode an utterance with neither issue-creation intent nor
\* search intent yields regular_chat and leaves the conversation state
\* unchanged.
C25_ChatLeavesStateUntouched ==
    [][\A heard \in Heard :
        ( /\ ~state.isCreatingIssue
          /\ ~heard.creationIntent
          /\ ~heard.searchIntent
          /\ Handled(heard, processUserInput(heard, state, NoExtraction)) ) =>
            /\ result'.action = "regular_chat"
            /\ state' = state]_vars

C25_Witness ==
    /\ pc = "handle"
    /\ result.action = "regular_chat"
    /\ ~turn.creating
    /\ ~turn.creationIntent
    /\ ~state.isCreatingIssue
    /\ state.extractedParameters # Undefined

\* the engine is idle, or in a collecting step or the confirming step
Settled(st) ==
    IF st.isCreatingIssue
    THEN st.currentStep \in {ASKING_PROJECT, ASKING_TYPE, ASKING_TITLE, ASKING_DESCRIPTION,
                             ASKING_PRIORITY, CONFIRMING_DETAILS}
    ELSE st.currentStep = DETECTING_INTENT

\* C26: no failure of the extraction call, the creation call or the search
\* ends the conversation loop: whenever the loop reads the next utterance the engine is
\* idle, in a collecting step or in the confirming step; a failed extraction
\* leaves a session that asks a field question, a failed creation leaves the
\* engine idle with the loop reading, a search is made only when idle and
\* leaves the engine idle, and the loop has ended only on the exit command.
C26_FailuresKeepTheLoopReading ==
    /\ pc = "read" => Settled(state)
    /\ (IntentTurn /\ (reply.outcome \in {"throw", "unparsable"} \/ ~SeededByExtraction)) =>
        /\ Settled(state)
        /\ state.isCreatingIssue
        /\ result.action = "continue"
        /\ result.message.kind = "question"
    /\ creation \in {"failure", "throw", "not_ready"} =>
        /\ pc = "read"
        /\ ~state.isCreatingIssue
    /\ result.action = "search" => (~state.isCreatingIssue /\ Settled(state))
    /\ pc = "exited" => (creation = "none" /\ result = NoResult)

C26_Witness ==
    /\ creation = "throw"
    /\ pc = "read"
    /\ Len(handed) > 0
    /\ state.currentStep = DETECTING_INTENT
    /\ reply.outcome = "throw"

\* the record most recently handed to createJiraIssue has a project and a title
HandedComplete ==
    /\ Len(handed) > 0
    /\ HasProp(handed[Len(handed)], "project")
    /\ HasProp(handed[Len(handed)], "title")

\* C27: a failure of the creation call reaches the engine as a result value
\* and not as a thrown exception: once the service is initialised and the
\* record has a project and a title, createJiraIssue returns (success or
\* failure) and does not throw.
C27_CreationFailureIsAResult ==
    (creation \notin {"none", "not_ready"} /\ HandedComplete) =>
        creation \in {"success", "failure"}

\* C28: on the utterance that starts a session the deterministic extractor is
\* run as a first pass: when the utterance has a quoted substring, the title
\* is the quoted text and title is not pending, whatever the model returned.
C28_QuotedTitlePrefilled ==
    [][\A heard \in Heard :
        ( /\ ~state.isCreatingIssue
          /\ heard.creationIntent
          /\ "title" \in DOMAIN heard.explicit ) =>
            \A extraction \in Extracted :
                Started(heard, extraction, processUserInput(heard, state, extraction)) =>
                    /\ "title" \in DOMAIN state'.issueData
                    /\ state'.issueData["title"] = heard.explicit["title"]
                    /\ \A i \in 1..Len(state'.missingParameters.items) :
                        state'.missingParameters.items[i] # "title"]_vars

\* the title the answer is said to give: the quoted substring when there is
\* one, else the trimmed answer when longer than 5 characters, else absent
TitleAsSpecified(userInput) ==
    IF QuotedMatch(userInput) # Null THEN QuotedMatch(userInput)
    ELSE IF Len(trim(userInput)) > MinTitleLength THEN Str(trim(userInput))
    ELSE Null

\* C29: for a title follow-up answer the deterministic extractor returns the
\* quoted substring when the answer contains one; otherwise the trimmed answer
\* when its trimmed length exceeds 5 characters; otherwise absent.
C29_TitleAnswerPrefersQuoted ==
    [][\A heard \in Heard :
        ( /\ PendingField(state) = "title"
          /\ ~heard.cancellation
          /\ Handled(heard, processUserInput(heard, state, NoExtraction)) ) =>
            IF TitleAsSpecified(heard.input) = Null
            THEN state'.issueData = state.issueData
            ELSE /\ "title" \in DOMAIN state'.issueData
                 /\ state'.issueData["title"] = TitleAsSpecified(heard.input).s]_vars

\* C30: the search for similar issues is advisory: whatever it returns
\* (similar issues, none, or an error), the confirmed record is handed to the
\* creation call.
C30_SearchNeverPreventsCreation ==
    [][\A search \in SearchReplies, backend \in BackendReplies :
        /\ (zapierReady /\ attemptIssueCreationOn(search, backend)) =>
            handed' = Append(handed, state.issueData)
        /\ \A shouldContinue \in BOOLEAN :
            createIssueOn(search, shouldContinue, backend) =>
                handed' = Append(handed, state.issueData)]_vars

\* the session asks step by step: the validator threw on the model's reply
Guided == reply.outcome # "none" /\ validateThrows(extractParameters(reply))

\* the place of a question in the order of the step-by-step flow
Rank(entry) ==
    IF entry = "project" THEN 1
    ELSE IF entry = "type" THEN 2
    ELSE IF entry = "title" THEN 3
    ELSE IF entry = "description" THEN 4
    ELSE IF entry = "priority" THEN 5
    ELSE 6

\* C31: in the step-by-step flow the questions come in the order project, type,
\* title, description, priority, confirmation, each at most once (repeats of
\* the same question after an unusable answer aside); a field known from the
\* triggering utterance is not asked; and the confirmation is asked only when
\* project, type, title and priority are all set.
C31_GuidedOrder ==
    Guided =>
        /\ \A i \in 1..Len(emitted) : \A j \in 1..Len(emitted) :
               i < j => Rank(emitted[i]) < Rank(emitted[j])
        /\ \A i \in 1..Len(emitted) :
               emitted[i] \in ParameterNames =>
                   ~HasProp(explicitData, PropOfField(emitted[i]))
        /\ ( /\ state.isCreatingIssue
             /\ Len(emitted) > 0
             /\ emitted[Len(emitted)] = "confirm" ) => hasAllRequiredData(state.issueData)

\* C32: turns never overlap: while the result of an utterance is being handled
\* (pc = "handle") the only step is the end of that handling, which reads no
\* utterance and returns to the read; and the conversation state changes only
\* in the processing of the one utterance read or in the handling of its result.
C32_TurnsNeverOverlap ==
    [][/\ pc = "handle" => (pc' = "read" /\ turn' = turn /\ result' = result)
       /\ state' # state => ((pc = "read" /\ pc' = "handle") \/ pc = "handle")
       /\ (creation' # "none" \/ Len(handed') > Len(handed)) => pc = "handle"]_vars

C32_Witness ==
    /\ pc = "read"
    /\ ~turn.creating
    /\ turn.creationIntent
    /\ reply.outcome = "ok"
    /\ creation = "success"
    /\ Len(handed) = 1

\* the four projects of the catalog
catalogProjects == {"FV Demo (Issues)", "FV Demo (Product)", "FV Engineering", "FV Product"}

\* the canonical values of a closed-vocabulary field
Canonical(field) ==
    IF field = "project" THEN catalogProjects
    ELSE IF field = "type" THEN validTypes
    ELSE validPriorities

\* C33: in the step-by-step flow the stored project is always one of the
\* catalog projects, the type one of Bug/Task/Story/Epic and the priority one
\* of Lowest/Low/Medium/High/Highest: an answer that maps to none of them is
\* rejected and the same field is asked again.
C33_GuidedValuesCanonical ==
    (Guided /\ state.isCreatingIssue) =>
        \A field \in {"project", "type", "priority"} :
            HasProp(state.issueData, PropOfField(field)) =>
                state.issueData[PropOfField(field)] \in Canonical(field)

\* C34: a title answer whose trimmed length is at least 5 is accepted and
\* stored trimmed; only a shorter answer is rejected, the title asked again.
C34_TitleOfFiveAccepted ==
    [][\A heard \in TitleHeard :
        ( /\ PendingField(state) = "title"
          /\ ~heard.cancellation
          /\ Handled(heard, processUserInput(heard, state, NoExtraction)) ) =>
            IF Len(trim(heard.input)) >= MinTitleLength
            THEN /\ "title" \in DOMAIN state'.issueData
                 /\ state'.issueData["title"] = trim(heard.input)
            ELSE /\ state' = state
                 /\ result'.message.about = "title"
                 /\ result'.message.kind \in {"retry", "error"}]_vars

\* C35: when the creation call fails or throws, the user is not told that an
\* issue was created: no success message, issue key or issue link is shown
\* for that attempt, only the error.
C35_FailureNeverShownAsCreated ==
    [][\A backend \in BackendReplies \ {"success"} :
        \A search \in SearchReplies, shouldContinue \in BOOLEAN :
            ( /\ Len(handed') > Len(handed)
              /\ \/ executeIssueCreationOn(backend)
                 \/ attemptIssueCreationOn(search, backend)
                 \/ createIssueOn(search, shouldContinue, backend) ) =>
                Shown(creation') = {"error"}]_vars

\* C36: every accepted follow-up answer is stored into the field named by the
\* question most recently emitted, in every session (also one started after a
\* session was cancelled while collecting, and one that fell back to the
\* step-by-step flow).
C36_AnswerStoredInAskedField ==
    [][Len(accepted') > Len(accepted) =>
        /\ Len(emitted) > 0
        /\ accepted'[Len(accepted')][1] = emitted[Len(emitted)]]_vars

\* C37: at every turn boundary while an issue is being created in the
\* extraction-seeded flow, the step matches the pending list: confirming iff
\* the list is empty, otherwise the asking step of the head of the list.
C37_StepMatchesPending ==
    (pc = "read" /\ state.isCreatingIssue /\ SeededByExtraction) =>
        IF Len(state.missingParameters.items) = 0
        THEN state.currentStep = CONFIRMING_DETAILS
        ELSE FieldOfStep(state.currentStep) = state.missingParameters.items[1]

C37_Witness ==
    /\ pc = "read"
    /\ state.isCreatingIssue
    /\ SeededByExtraction
    /\ Len(accepted) = 1
    /\ state.missingParameters.items = <<"description">>
    /\ state.currentStep = ASKING_DESCRIPTION

\* C38: whenever create_issue is emitted, the record holds a non-empty
\* project, type, title and priority, so the required-field checks of
\* createJiraIssue do not fail for it.
C38_EmittedRecordComplete ==
    (pc = "handle" /\ result.action = "create_issue") =>
        /\ hasAllRequiredData(state.issueData)
        /\ createJiraIssue(state.issueData, "success") = "success"

\* what the validator makes of a project alias the model returns (Null when it
\* recognises neither an alias nor a full name and falls back to the default)
ValidatorProject(alias) ==
    FirstFound(Lookup(validatorProjectMapping, trim(toLowerCase(alias)), 1),
               FindFullName(trim(toLowerCase(alias)), validFullNames, 1),
               Null)

\* C39: the validator and the deterministic answer extractor agree on the
\* project vocabulary: an answer to the project question that both recognise
\* is stored as the project the validator maps it to, which is the project
\* the documented shortcut table gives for it.
C39_ValidatorAndExtractorAgree ==
    [][\A heard \in AnswerHeard :
        ( /\ PendingField(state) = "project"
          /\ ~heard.cancellation
          /\ Truthy(heard.answer["project"])
          /\ ValidatorProject(heard.input) # Null
          /\ Handled(heard, processUserInput(heard, state, NoExtraction)) ) =>
            /\ HasProp(state'.issueData, "project")
            /\ state'.issueData["project"] = ValidatorProject(heard.input).s
            /\ DocumentedProject(heard.input) # "" =>
                   ValidatorProject(heard.input).s = DocumentedProject(heard.input)]_vars

\* C40: in the extraction-seeded flow, from the end of the seeding turn until
\* the state is reset, the record's type is one of Bug/Task/Story/Epic, its
\* priority one of Lowest/Low/Medium/High/Highest and its project one of the
\* four catalog projects, whatever the model returned.
C40_SeededEnumerationsCanonical ==
    (SeededByExtraction /\ state.isCreatingIssue) =>
        \A field \in {"type", "priority", "project"} :
            /\ HasProp(state.issueData, PropOfField(field))
            /\ state.issueData[PropOfField(field)] \in Canonical(field)

====
